---- MODULE Spec2Model ----
(***************************************************************************)
(* Recaizade Crew: the orchestration state machine of graph.py driven by   *)
(* the terminal session of ui.py.  One session owns conversation_history;  *)
(* every external input starts a run of the graph (router, then the        *)
(* Coordinator "recaizade", or the crew cycle coder, executor, reviewer,   *)
(* documenter) on a fresh AgentState seeded with the history.              *)
(*                                                                         *)
(* Texts are TLA+ strings and are inspected the way the code inspects      *)
(* them (substring, prefix, upper-casing).  The language model, the tool   *)
(* bodies and the user are the environment: their outputs are drawn from   *)
(* the small sets ModelResponses, ToolOutput and UserInputs.               *)
(***************************************************************************)
EXTENDS Integers, Sequences, FiniteSets, TLC

VARIABLES
    conversation_history,  \* ui.py: RecaizadeApp.conversation_history
    messages,              \* AgentState.messages of the current run
    next_node,             \* AgentState.next_node
    task_description,      \* AgentState.task_description
    review_status,         \* AgentState.review_status
    waiting_confirmation,  \* AgentState.waiting_confirmation
    pending_tool,          \* AgentState.pending_tool
    pc,                    \* where the session is: a graph node about to run,
                           \* "confirm" (ToolConfirmationScreen open), "idle"
                           \* (no run yet, or callback returned), "end" (END)
    provider,              \* agents.py: model_manager.provider
    confirmation_level,    \* config: behavior.tool_confirmation
    effects,               \* side effects performed so far, in order
    last_run,              \* observation of the latest node that ran
    turn,                  \* observation of how the current run was started
    gate,                  \* one call of execute_tool_with_confirmation taken
                           \* alone: its arguments and what it returned
    role_tools,            \* config: behavior.<role>_tools, the tool names the
                           \* settings give each role
    invocation,            \* one call of invoke_model_with_fallback taken
                           \* alone: its inputs and what it returned
    config_provider,       \* config: provider, the provider the settings name
    routing                \* one call of router_node taken alone: the
                           \* messages of its state and what it returned

vars == <<conversation_history, messages, next_node, task_description,
          review_status, waiting_confirmation, pending_tool, pc, provider,
          confirmation_level, effects, last_run, turn, gate, role_tools, invocation, config_provider, routing>>

(***************************************************************************)
(* Bounds                                                                  *)
(***************************************************************************)
MaxHistory == 6    \* messages in conversation_history
MaxMessages == 7   \* messages in AgentState.messages of one run
MaxEffects == 3   \* side effects recorded in one session
MaxGateHistory == 2   \* messages in the history handed to one pipeline call

(***************************************************************************)
(* Text helpers (Python str operations)                                    *)
(***************************************************************************)
\* s[i-1:j] of Python: the characters i..j of s, clipped to s
Sub(s, i, j) ==
    LET lo == IF i < 1 THEN 1 ELSE i
        hi == IF j > Len(s) THEN Len(s) ELSE j
    IN  IF lo > hi THEN "" ELSE SubSeq(s, lo, hi)

\* n in s
Contains(s, n) ==
    \E i \in 1..(Len(s) - Len(n) + 1) : Sub(s, i, i + Len(n) - 1) = n

\* s.startswith(p)
StartsWith(s, p) == Len(p) <= Len(s) /\ Sub(s, 1, Len(p)) = p

LowerAlpha == "abcdefghijklmnopqrstuvwxyz"
UpperAlpha == "ABCDEFGHIJKLMNOPQRSTUVWXYZ"

UpperMap ==
    [a |-> "A", b |-> "B", c |-> "C", d |-> "D", e |-> "E", f |-> "F",
     g |-> "G", h |-> "H", i |-> "I", j |-> "J", k |-> "K", l |-> "L",
     m |-> "M", n |-> "N", o |-> "O", p |-> "P", q |-> "Q", r |-> "R",
     s |-> "S", t |-> "T", u |-> "U", v |-> "V", w |-> "W", x |-> "X",
     y |-> "Y", z |-> "Z"]

UpperCh(c) == IF c \in DOMAIN UpperMap THEN UpperMap[c] ELSE c

RECURSIVE Upper(_)
\* s.upper(), character by character (the text is halved at each step)
Upper(s) ==
    IF Len(s) = 0 THEN ""
    ELSE IF Len(s) = 1 THEN UpperCh(s)
    ELSE Upper(Sub(s, 1, Len(s) \div 2)) \o Upper(Sub(s, Len(s) \div 2 + 1, Len(s)))

IsSpace(c) == c = " " \/ c = "\n" \/ c = "\t"

RECURSIVE LStrip(_)
LStrip(s) ==
    IF Len(s) > 0 /\ IsSpace(Sub(s, 1, 1)) THEN LStrip(Sub(s, 2, Len(s)))
    ELSE s

RECURSIVE RStrip(_)
RStrip(s) ==
    IF Len(s) > 0 /\ IsSpace(Sub(s, Len(s), Len(s)))
    THEN RStrip(Sub(s, 1, Len(s) - 1))
    ELSE s

\* s.strip()
Strip(s) == RStrip(LStrip(s))

RECURSIVE RemoveAll(_, _)
\* s.replace(old, empty)
RemoveAll(s, old) ==
    IF Len(s) < Len(old) \/ Len(old) = 0 THEN s
    ELSE IF Sub(s, 1, Len(old)) = old
         THEN RemoveAll(Sub(s, Len(old) + 1, Len(s)), old)
         ELSE Sub(s, 1, 1) \o RemoveAll(Sub(s, 2, Len(s)), old)

(***************************************************************************)
(* Messages (langchain_core.messages) and tool calls                       *)
(***************************************************************************)
\* A tool request of a model response.  "valid" abstracts the arguments:
\* whether they satisfy the pydantic schema registered for the tool.
ToolCall(n, i, v) == [name |-> n, id |-> i, valid |-> v]

NoTool == [name |-> "", id |-> "", valid |-> TRUE]

HumanMessage(c) ==
    [type |-> "human", content |-> c, tool_calls |-> <<>>,
     tool_call_id |-> "", name |-> "", run |-> FALSE]

\* An assistant message built by the code itself (no id).
AIMessage(c) ==
    [type |-> "ai", content |-> c, tool_calls |-> <<>>,
     tool_call_id |-> "", name |-> "", run |-> FALSE]

\* An assistant message returned by a provider: it carries a fresh run id,
\* so it is never equal to a message already in the history.
ModelMessage(c, tcs) ==
    [type |-> "ai", content |-> c, tool_calls |-> tcs,
     tool_call_id |-> "", name |-> "", run |-> TRUE]

ToolMessage(c, id, n) ==
    [type |-> "tool", content |-> c, tool_calls |-> <<>>,
     tool_call_id |-> id, name |-> n, run |-> FALSE]

(***************************************************************************)
(* Tool registry                                                           *)
(***************************************************************************)
DANGEROUS_TOOLS ==
    {"run_command", "run_python", "write_file", "delete_file",
     "move_file", "copy_file", "append_to_file"}

TOOL_MAP ==
    {"read_file", "write_file", "list_directory", "delete_file",
     "run_command", "run_python", "search_in_files", "move_file",
     "copy_file", "append_to_file", "get_file_info",
     "get_project_structure", "analyze_code", "find_references",
     "save_memory", "recall_memory", "add_to_context", "web_search",
     "fetch_url", "read_webpage"}

SCHEMA_MAP ==
    {"read_file", "write_file", "list_directory", "delete_file",
     "run_command", "run_python", "search_in_files", "move_file",
     "copy_file", "append_to_file", "get_file_info", "save_memory",
     "recall_memory", "add_to_context", "web_search", "fetch_url",
     "read_webpage"}

\* str(result) of a dispatched tool (the tool bodies are external).
ToolOutput(n) ==
    IF n = "write_file" THEN "Successfully wrote to a.py" ELSE "file text"

(***************************************************************************)
(* Tool invocation pipeline                                                *)
(***************************************************************************)
ApprovalMarker(tool_name, tool_id) ==
    "APPROVE_TOOL:" \o tool_name \o ":" \o tool_id

\* The approval scan without its test of the sender: any message that
\* carries the marker counts.
ApprovalFoundAnySender(tool_name, tool_id, msgs) ==
    \E i \in 1..Len(msgs) :
        Contains(msgs[i].content, ApprovalMarker(tool_name, tool_id))

\* graph.py: the approval scan of execute_tool_with_confirmation
ApprovalFound(tool_name, tool_id, msgs) ==
    \E i \in 1..Len(msgs) :
        /\ msgs[i].type = "human"
        /\ Contains(msgs[i].content, ApprovalMarker(tool_name, tool_id))

\* The policy test that treats auto like dangerous.
NeedsConfirmAutoAsDangerous(level, tool_name, tool_id, msgs) ==
    IF level = "all" THEN ~ApprovalFound(tool_name, tool_id, msgs)
    ELSE tool_name \in DANGEROUS_TOOLS /\ ~ApprovalFound(tool_name, tool_id, msgs)

\* graph.py: needs_confirm of execute_tool_with_confirmation
NeedsConfirm(level, tool_name, tool_id, msgs) ==
    IF level = "all" THEN ~ApprovalFound(tool_name, tool_id, msgs)
    ELSE IF level = "dangerous"
         THEN tool_name \in DANGEROUS_TOOLS /\ ~ApprovalFound(tool_name, tool_id, msgs)
         ELSE FALSE

\* The pipeline with the confirmation gate ahead of the argument validation.
ExecuteGateFirst(level, tc, msgs) ==
    IF NeedsConfirm(level, tc.name, tc.id, msgs)
    THEN [result |-> "CONFIRMATION_REQUIRED:" \o tc.name \o ":" \o tc.id,
          needs_confirm |-> TRUE, dispatched |-> FALSE]
    ELSE IF tc.name \in SCHEMA_MAP /\ ~tc.valid
    THEN [result |-> "Error: Tool argument validation failed for '" \o tc.name
                     \o "'. Details: invalid. Please fix the arguments and try again.",
          needs_confirm |-> FALSE, dispatched |-> FALSE]
    ELSE IF tc.name \in TOOL_MAP
    THEN [result |-> ToolOutput(tc.name),
          needs_confirm |-> FALSE, dispatched |-> TRUE]
    ELSE [result |-> "Error: Tool " \o tc.name \o " not found.",
          needs_confirm |-> FALSE, dispatched |-> FALSE]

\* graph.py: execute_tool_with_confirmation.  Returns the result text,
\* needs_confirmation, and whether the tool function was dispatched.
\* behavior.use_mcp is not set (no default names it), so a dispatch is the
\* call of the in-process function of TOOL_MAP.
ExecuteToolWithConfirmation(level, tc, msgs) ==
    IF tc.name \in SCHEMA_MAP /\ ~tc.valid
    THEN [result |-> "Error: Tool argument validation failed for '" \o tc.name
                     \o "'. Details: invalid. Please fix the arguments and try again.",
          needs_confirm |-> FALSE, dispatched |-> FALSE]
    ELSE IF NeedsConfirm(level, tc.name, tc.id, msgs)
    THEN [result |-> "CONFIRMATION_REQUIRED:" \o tc.name \o ":" \o tc.id,
          needs_confirm |-> TRUE, dispatched |-> FALSE]
    ELSE IF tc.name \in TOOL_MAP
    THEN [result |-> ToolOutput(tc.name),
          needs_confirm |-> FALSE, dispatched |-> TRUE]
    ELSE [result |-> "Error: Tool " \o tc.name \o " not found.",
          needs_confirm |-> FALSE, dispatched |-> FALSE]

(***************************************************************************)
(* Executor: code-block and filename parsing                               *)
(***************************************************************************)
WordChars == LowerAlpha \o UpperAlpha \o "0123456789_"

\* a word character
IsWord(c) == Len(c) = 1 /\ Contains(WordChars, c)

\* a character of a labelled file name
IsNameChar(c) == IsWord(c) \/ c = "." \/ c = "/" \/ c = "_" \/ c = "-"

\* a character of a path segment
IsSegChar(c) == IsWord(c) \/ c = "." \/ c = "-"

Ch(s, i) == Sub(s, i, i)

\* The smallest / largest element of a non-empty set of indexes
Min(S) == CHOOSE x \in S : \A y \in S : x <= y

Max(S) == CHOOSE x \in S : \A y \in S : x >= y

\* The indexes from "from" on where n occurs in s
Occurrences(s, n, from) ==
    {i \in from..(Len(s) - Len(n) + 1) : Sub(s, i, i + Len(n) - 1) = n}

\* s.find(n, from): the smallest index >= from where n occurs, 0 if none
FindFrom(s, n, from) ==
    LET occ == Occurrences(s, n, from)
    IN  IF occ = {} THEN 0 ELSE Min(occ)

\* s.rfind(n): the largest index where n occurs, 0 if none
RFind(s, n) ==
    LET occ == Occurrences(s, n, 1)
    IN  IF occ = {} THEN 0 ELSE Max(occ)

\* The end of the longest run of characters satisfying P that starts at i
\* (i - 1 when s[i] does not satisfy P).
RunEnd(s, i, P(_)) ==
    LET stops == {k \in i..Len(s) : ~P(Ch(s, k))}
    IN  IF stops = {} THEN Len(s) ELSE Min(stops) - 1

\* The markdown code fence (three backquotes in the source; a backquote is not
\* a TLA+ string character, so the model texts write it with tildes).
Fence == "~~~"

\* Index of the last character of a code block that starts at i (a fence, an
\* optional word, a newline, then the shortest text up to the next fence),
\* 0 when there is none.
FenceMatchEnd(s, i) ==
    IF Sub(s, i, i + 2) # Fence THEN 0
    ELSE LET nl == RunEnd(s, i + 3, IsWord) + 1
         IN  IF Ch(s, nl) # "\n" THEN 0
             ELSE LET close == FindFrom(s, Fence, nl + 1)
                  IN  IF close = 0 THEN 0 ELSE close + 2

RECURSIVE CodeBlocks(_, _)
\* executor_node, re.split on the code-block pattern: the code blocks from
\* index from on, each with the text that precedes it.
CodeBlocks(s, from) ==
    LET starts == {k \in Occurrences(s, Fence, from) : FenceMatchEnd(s, k) # 0}
        Block(i, e) == <<[preceding |-> Sub(s, from, i - 1), block |-> Sub(s, i, e)]>>
                       \o CodeBlocks(s, e + 1)
        First(i) == Block(i, FenceMatchEnd(s, i))
    IN  IF starts # {} THEN First(Min(starts)) ELSE <<>>

\* A match at i of the label pattern (File, Filename or Path, a colon,
\* optional spaces, an optional quote, then the name), case-insensitive:
\* the name and its last index; the name is empty when there is no match.
LabelAt(s, i) ==
    LET Name(q, e) == IF e < q THEN [name |-> "", end |-> 0]
                      ELSE [name |-> Sub(s, q, e), end |-> e]
        Quote(sp)  == IF Ch(s, sp) \in {"'", "\""} /\ IsNameChar(Ch(s, sp + 1))
                      THEN sp + 1 ELSE sp
        From(q)    == Name(q, RunEnd(s, q, IsNameChar))
        Label(lab) == IF lab = 0 THEN [name |-> "", end |-> 0]
                      ELSE From(Quote(RunEnd(s, i + lab, IsSpace) + 1))
    IN  Label(IF Upper(Sub(s, i, i + 4)) = "FILE:" THEN 5
              ELSE IF Upper(Sub(s, i, i + 8)) = "FILENAME:" THEN 9
              ELSE IF Upper(Sub(s, i, i + 4)) = "PATH:" THEN 5
              ELSE 0)

RECURSIVE LabelNames(_, _)
\* The group(1) of every non-overlapping match, left to right.
LabelNames(s, from) ==
    LET starts == {k \in from..Len(s) : Ch(s, k) \in {"F", "f", "P", "p"}
                                         /\ LabelAt(s, k).name # ""}
        Match(m) == <<m.name>> \o LabelNames(s, m.end + 1)
    IN  IF starts # {} THEN Match(LabelAt(s, Min(starts))) ELSE <<>>

\* q is a path: segments separated by slashes, the last one ending in a dot
\* and a word
IsPath(q) ==
    /\ Len(q) >= 3
    /\ \A k \in 1..Len(q) : IsSegChar(Ch(q, k)) \/ Ch(q, k) = "/"
    /\ Ch(q, 1) # "/"
    /\ ~Contains(q, "//")
    /\ LET seg == Sub(q, RFind(q, "/") + 1, Len(q))
       IN  \E d \in 2..(Len(seg) - 1) :
               /\ Ch(seg, d) = "."
               /\ \A k \in (d + 1)..Len(seg) : IsWord(Ch(seg, k))

\* re.search of the path pattern in line: the leftmost match, taken as long
\* as it can be; "" when there is none.
PathSearch(line) ==
    LET starts == {p \in 1..Len(line) :
                      \E e \in p..Len(line) : IsPath(Sub(line, p, e))}
        Longest(p) == Sub(line, p, Max({k \in p..Len(line) : IsPath(Sub(line, p, k))}))
    IN  IF starts # {} THEN Longest(Min(starts)) ELSE ""

\* the last line of text
LastLine(text) == Sub(text, RFind(text, "\n") + 1, Len(text))

\* the first line of text
FirstLine(text) ==
    IF Contains(text, "\n") THEN Sub(text, 1, FindFrom(text, "\n", 1) - 1)
    ELSE text

\* executor_node: the body of one code block
BlockCode(block) ==
    Sub(block, FindFrom(block, "\n", 1) + 1, RFind(block, Fence) - 1)

\* executor_node: the filename of one code block ("" when none is found)
BlockFilename(preceding, code) ==
    LET Pick(s1, s2, s3) ==
            IF s1 # <<>> THEN Strip(s1[Len(s1)])
            ELSE IF s2 # "" THEN Strip(s2)
            ELSE IF s3 # <<>> THEN Strip(s3[1])
            ELSE ""
    IN  Pick(LabelNames(preceding, 1),
             PathSearch(Strip(LastLine(Strip(preceding)))),
             LabelNames(Strip(FirstLine(code)), 1))

\* executor_node: one entry per code block; "written" tells whether
\* tool_funcs.write_file was called for it.
ExecutorBlocks(code_content) ==
    LET Entry(filename) ==
            [filename |-> filename,
             written  |-> filename # "" /\ Len(filename) < 100
                          /\ Contains(filename, ".")]
        Entries(blocks) ==
            [i \in 1..Len(blocks) |->
                Entry(BlockFilename(blocks[i].preceding, BlockCode(blocks[i].block)))]
    IN  Entries(CodeBlocks(code_content, 1))

(***************************************************************************)
(* Tools of a role                                                         *)
(***************************************************************************)
Roles == {"recaizade", "coder", "reviewer", "documenter"}

\* config_manager.py: behavior.recaizade_tools of DEFAULT_SETTINGS
RecaizadeTools == TOOL_MAP

\* The settings a session can start with: the defaults, which name no tools
\* for coder, reviewer and documenter, and a settings file that names some.
RoleToolSettings ==
    {[r \in Roles |-> {}],
     [r \in Roles |-> IF r = "recaizade" THEN {} ELSE {"read_file", "write_file"}]}

\* get_tools_for_role: the names the role's model is bound to
GetToolsForRole(settings, role) ==
    LET tool_names == IF settings[role] = {} /\ role = "recaizade"
                      THEN RecaizadeTools ELSE settings[role]
    IN  tool_names \cap TOOL_MAP

(***************************************************************************)
(* Provider fallback / retry                                               *)
(***************************************************************************)
LowerMap ==
    [A |-> "a", B |-> "b", C |-> "c", D |-> "d", E |-> "e", F |-> "f",
     G |-> "g", H |-> "h", I |-> "i", J |-> "j", K |-> "k", L |-> "l",
     M |-> "m", N |-> "n", O |-> "o", P |-> "p", Q |-> "q", R |-> "r",
     S |-> "s", T |-> "t", U |-> "u", V |-> "v", W |-> "w", X |-> "x",
     Y |-> "y", Z |-> "z"]

LowerCh(c) == IF c \in DOMAIN LowerMap THEN LowerMap[c] ELSE c

RECURSIVE Lower(_)
\* s.lower(), character by character (the text is halved at each step)
Lower(s) ==
    IF Len(s) = 0 THEN ""
    ELSE IF Len(s) = 1 THEN LowerCh(s)
    ELSE Lower(Sub(s, 1, Len(s) \div 2)) \o Lower(Sub(s, Len(s) \div 2 + 1, Len(s)))

\* retries=2, the default of invoke_model_with_fallback
Retries == 2

\* The classification with the test of the credential before the test of
\* the rate limit.
FailureReasonKeyFirst(last_error) ==
    IF Contains(last_error, "401") \/ Contains(Lower(last_error), "key")
    THEN "Invalid or expired API Key"
    ELSE IF Contains(last_error, "429") \/ Contains(Lower(last_error), "quota")
            \/ Contains(Lower(last_error), "limit")
    THEN "Rate limit exceeded or Quota exhausted"
    ELSE IF Contains(last_error, "503") \/ Contains(Lower(last_error), "unavailable")
    THEN "Service unavailable"
    ELSE "Unknown API Error"

\* invoke_model_with_fallback: the classification of the last error
FailureReason(last_error) ==
    IF Contains(last_error, "429") \/ Contains(Lower(last_error), "quota")
       \/ Contains(Lower(last_error), "limit")
    THEN "Rate limit exceeded or Quota exhausted"
    ELSE IF Contains(last_error, "401") \/ Contains(Lower(last_error), "key")
    THEN "Invalid or expired API Key"
    ELSE IF Contains(last_error, "503") \/ Contains(Lower(last_error), "unavailable")
    THEN "Service unavailable"
    ELSE "Unknown API Error"

\* model_manager.switch_to_ollama()
SwitchToOllama(prov) == "ollama"

\* invoke_model_with_fallback: the tools bound to the model whose answer is
\* returned.  Tools are bound only while the provider is gemini; the call
\* made after the switch to ollama binds none.
BoundTools(prov, out, tools) ==
    IF prov = "gemini" /\ out.fails <= Retries THEN tools ELSE {}

\* The invocation that lets the error of the local model reach its caller:
\* with ollama active at entry, the exception of the last attempt is raised
\* again instead of being turned into a message.
InvokeRaisesLocalFailure(prov, resp, out) ==
    IF out.fails <= Retries
    THEN [response |-> resp, alert |-> "", provider |-> prov,
          calls |-> out.fails + 1, fallback_calls |-> 0, raised |-> FALSE]
    ELSE [response |-> NoTool, alert |-> "", provider |-> prov,
          calls |-> Retries + 1, fallback_calls |-> 0, raised |-> TRUE]

\* The critical-failure message without its [SYSTEM ALERT] tag.
CriticalMessageUntagged(failed, error) ==
    AIMessage("Critical Error: " \o failed \o " failed: " \o error)

\* invoke_model_with_fallback: the synthetic assistant message returned when
\* no provider is left to answer
CriticalMessage(failed, error) ==
    AIMessage("[SYSTEM ALERT] Critical Error: " \o failed \o " failed: " \o error)

\* invoke_model_with_fallback: what follows the failure of the last attempt,
\* after calls calls on the provider active at entry
Exhausted(prov, resp, out, calls) ==
    LET Fallback(alert_msg) ==
            [response |-> IF out.fallback_fails
                          THEN CriticalMessage("Fallback to Ollama", out.error)
                          ELSE resp,
             alert |-> alert_msg, provider |-> SwitchToOllama(prov),
             calls |-> calls, fallback_calls |-> 1, raised |-> FALSE]
    IN  IF prov = "gemini"
        THEN Fallback("[SYSTEM ALERT] Gemini Failure (" \o FailureReason(out.error)
                      \o "): " \o out.error \o ". Switching to Ollama...")
        ELSE [response |-> CriticalMessage("Local model (Ollama)", out.error),
              alert |-> "", provider |-> prov,
              calls |-> calls, fallback_calls |-> 0, raised |-> FALSE]

RECURSIVE InvokeAttemptOneMore(_, _, _, _)
\* The loop that gives up one attempt later (attempt <= retries).
InvokeAttemptOneMore(prov, resp, out, attempt) ==
    IF attempt >= out.fails
    THEN [response |-> resp, alert |-> "", provider |-> prov,
          calls |-> attempt + 1, fallback_calls |-> 0, raised |-> FALSE]
    ELSE IF attempt <= Retries
    THEN InvokeAttemptOneMore(prov, resp, out, attempt + 1)
    ELSE Exhausted(prov, resp, out, attempt + 1)

RECURSIVE InvokeAttempt(_, _, _, _)
\* invoke_model_with_fallback: the loop for attempt in range(retries + 1),
\* from attempt on.  The attempts 0 .. out.fails - 1 raise; a later one
\* answers and returns at once.
InvokeAttempt(prov, resp, out, attempt) ==
    IF attempt >= out.fails
    THEN [response |-> resp, alert |-> "", provider |-> prov,
          calls |-> attempt + 1, fallback_calls |-> 0, raised |-> FALSE]
    ELSE IF attempt < Retries
    THEN InvokeAttempt(prov, resp, out, attempt + 1)
    ELSE Exhausted(prov, resp, out, attempt + 1)

\* invoke_model_with_fallback.  resp is the answer of the model that answers;
\* out.fails is the number of attempts on the active provider that raise
\* before one succeeds, out.fallback_fails whether the call made after a
\* switch raises, out.error the text of the exceptions.  "calls" counts the
\* model calls on the provider active at entry, "fallback_calls" those made
\* after the switch.  "raised" tells whether an exception leaves the
\* function: every exception of a model call is caught, so no path sets it.
InvokeModelWithFallback(prov, resp, out) ==
    InvokeAttempt(prov, resp, out, 0)

(***************************************************************************)
(* Router                                                                  *)
(***************************************************************************)
TaskOf(content) == Strip(RemoveAll(content, "/task"))

IsTaskCommand(m) == m.type = "human" /\ StartsWith(Strip(m.content), "/task")

\* router_node, step 2: the role of the most recent assistant message
SenderOf(c) ==
    IF StartsWith(c, "Coder:") THEN "coder"
    ELSE IF StartsWith(c, "Reviewer:") THEN "reviewer"
    ELSE IF StartsWith(c, "Documenter:") THEN "documenter"
    ELSE IF StartsWith(c, "Executor:") THEN "executor"
    ELSE "recaizade"

\* The largest index of msgs whose message satisfies P, 0 if none.
LastIndex(msgs, P(_)) ==
    IF \E i \in 1..Len(msgs) : P(msgs[i])
    THEN CHOOSE i \in 1..Len(msgs) :
            P(msgs[i]) /\ \A j \in (i + 1)..Len(msgs) : ~P(msgs[j])
    ELSE 0

IsAI(m) == m.type = "ai"

\* The continuation test that holds for every message.
IsContinuationAlways(last_msg) == TRUE

\* router_node, step 2: the last message continues a previous flow
IsContinuation(last_msg) ==
    \/ last_msg.type = "tool"
    \/ /\ last_msg.type = "human"
       /\ (Contains(last_msg.content, "APPROVE_TOOL")
           \/ Contains(last_msg.content, "DENY_TOOL"))

\* The role read from the oldest assistant message instead of the latest.
OldestSender(msgs) ==
    IF \E i \in 1..Len(msgs) : IsAI(msgs[i])
    THEN SenderOf(msgs[Min({i \in 1..Len(msgs) : IsAI(msgs[i])})].content)
    ELSE "recaizade"

\* router_node, step 2: the backward scan for the agent that was last
\* active; the default stays when no assistant message is found
LastSender(msgs) ==
    LET Found(ai) == IF ai # 0 THEN SenderOf(msgs[ai].content) ELSE "recaizade"
    IN  Found(LastIndex(msgs, IsAI))

\* The task read from the oldest task command instead of the latest.
OldestTask(msgs) ==
    IF \E i \in 1..Len(msgs) : IsTaskCommand(msgs[i])
    THEN TaskOf(msgs[Min({i \in 1..Len(msgs) : IsTaskCommand(msgs[i])})].content)
    ELSE ""

\* router_node, step 3: the backward scan for the last task command
MaintainedTask(msgs) ==
    LET Found(t) == IF t # 0 THEN TaskOf(msgs[t].content) ELSE ""
    IN  Found(LastIndex(msgs, IsTaskCommand))

\* router_node: next_node and task_description ("" when the key is not set)
RouterNode(msgs) ==
    IF msgs = <<>> THEN [next_node |-> "recaizade", task_description |-> ""]
    ELSE LET last_msg == msgs[Len(msgs)]
         IN  IF IsTaskCommand(last_msg)
             THEN [next_node |-> "coder", task_description |-> TaskOf(last_msg.content)]
             ELSE [next_node |-> IF IsContinuation(last_msg)
                                 THEN LastSender(msgs) ELSE "recaizade",
                   task_description |-> MaintainedTask(msgs)]

\* The routing after Documenter without its test of a system alert.
RouteDocumenterIgnoresAlert(msgs, status) ==
    IF status = "APPROVED" THEN "end" ELSE "coder"

\* route_documenter
RouteDocumenter(msgs, status) ==
    IF msgs # <<>> /\ Contains(msgs[Len(msgs)].content, "[SYSTEM ALERT]") THEN "end"
    ELSE IF status = "APPROVED" THEN "end"
    ELSE "coder"

(***************************************************************************)
(* The settings the confirmation policy is read from                       *)
(***************************************************************************)
\* Python's None: the value of a JSON null, and what config.get returns for
\* a key that is not there
None == "None"

\* A JSON object with the given items
Dict(items) == [is_dict |-> TRUE, items |-> items]

\* A JSON value that is no object
NotDict == [is_dict |-> FALSE, items |-> <<>>]

\* config_manager.py: the behavior section of DEFAULT_SETTINGS, its
\* tool_confirmation
DefaultBehavior == Dict([tool_confirmation |-> "dangerous"])

\* ConfigManager._merge_defaults for the section with the defaults always
\* put over what the file stores.
MergeDefaultsOverStored(defaults, stored) ==
    IF stored.is_dict /\ defaults.is_dict
    THEN Dict([k \in DOMAIN defaults.items \cup DOMAIN stored.items |->
                 IF k \in DOMAIN defaults.items THEN defaults.items[k]
                 ELSE stored.items[k]])
    ELSE stored

\* ConfigManager._merge_defaults, for one section: the stored items over the
\* defaults when both are objects, the stored value otherwise
MergeDefaults(defaults, stored) ==
    IF stored.is_dict /\ defaults.is_dict
    THEN Dict([k \in DOMAIN defaults.items \cup DOMAIN stored.items |->
                 IF k \in DOMAIN stored.items THEN stored.items[k]
                 ELSE defaults.items[k]])
    ELSE stored

\* ConfigManager.load_settings, the behavior section: the defaults when
\* there is no readable settings file or the file has no such section
LoadBehavior(file) ==
    IF file.kind = "behavior" THEN MergeDefaults(DefaultBehavior, file.value)
    ELSE DefaultBehavior

\* ConfigManager.get("behavior", key)
ConfigGet(behavior, key) ==
    IF behavior.is_dict /\ key \in DOMAIN behavior.items
    THEN behavior.items[key] ELSE None

\* The policy values a settings file can hold: the three the settings
\* screen offers, two misspelled ones and null
StoredPolicies == {"auto", "dangerous", "all", "Dangerous", "always", None}

\* The settings files: none (or an unreadable one), one without a behavior
\* section, one whose behavior section is no object, one whose behavior
\* section has no tool_confirmation, and one for every stored policy value
SettingsFiles ==
    {[kind |-> "none", value |-> NotDict],
     [kind |-> "no behavior", value |-> NotDict],
     [kind |-> "behavior", value |-> NotDict],
     [kind |-> "behavior", value |-> Dict(<<>>)]}
    \cup {[kind |-> "behavior", value |-> Dict([tool_confirmation |-> v])] :
            v \in StoredPolicies}

(***************************************************************************)
(* The execution of a tool: remote session, reset, in-process function     *)
(***************************************************************************)
\* str(result.content) of session.call_tool
RemoteOutput(n) == "[TextContent(type='text', text='" \o ToolOutput(n) \o "')]"

\* MCPClientManager.get_session: whether it returns a session, given that one
\* is open or how the start of one ends (a failing start is caught there)
GetSession(open, start) == open \/ start = "ok"

\* What the environment does during one call: how the start of the session
\* ends and how session.call_tool ends in each attempt, how the reset of
\* the session ends, how the in-process tool function ends
ExecuteEnvs ==
    [start1 : {"ok", "fails"}, call1 : {"ok", "raises"}, reset : {"ok", "raises"},
     start2 : {"ok", "fails"}, call2 : {"ok", "raises"}, local : {"ok", "raises"}]

\* The Execute part with a reset of the session after every failed
\* attempt and the in-process function called whatever the attempts gave.
ExecuteAlwaysLocal(name, use_mcp, open, env) ==
    LET LocalCall(events, session) ==
            [result |-> ToolOutput(name), needs_confirm |-> FALSE,
             dispatched |-> TRUE, raised |-> FALSE,
             events |-> events \o <<"local ok">>, session |-> session]
        Second(events, open2) ==
            IF GetSession(open2, env.start2)
            THEN IF env.call2 = "ok"
                 THEN LocalCall(events \o <<"remote ok">>, TRUE)
                 ELSE LocalCall(events \o <<"remote raised", "reset">>, FALSE)
            ELSE LocalCall(events \o <<"no session">>, FALSE)
        First ==
            IF GetSession(open, env.start1)
            THEN IF env.call1 = "ok"
                 THEN LocalCall(<<"remote ok">>, TRUE)
                 ELSE Second(<<"remote raised", "reset">>, FALSE)
            ELSE Second(<<"no session">>, FALSE)
    IN  IF use_mcp THEN First ELSE LocalCall(<<>>, open)

\* execute_tool_with_confirmation, the part after the gate (# Execute).
\* events lists what was done, in order: a remote attempt ("remote ok",
\* "remote raised", or "no session" when get_session returned None), the
\* reset of the session ("reset", or "reset raised"), the call of the
\* in-process function ("local ok", "local raised").  raised tells that the
\* call ended in an exception instead of a returned pair; session tells
\* whether MCPClientManager holds a session afterwards.
Execute(name, use_mcp, open, env) ==
    LET Ret(result, dispatched, raised, events, session) ==
            [result |-> result, needs_confirm |-> FALSE,
             dispatched |-> dispatched, raised |-> raised,
             events |-> events, session |-> session]
        LocalCall(events, session) ==
            IF name \in TOOL_MAP
            THEN IF env.local = "ok"
                 THEN Ret(ToolOutput(name), TRUE, FALSE,
                          events \o <<"local ok">>, session)
                 ELSE Ret("Error executing " \o name \o ": failed", TRUE, FALSE,
                          events \o <<"local raised">>, session)
            ELSE Ret("Error: Tool " \o name \o " not found.", FALSE, FALSE,
                     events, session)
        Second(events, open2) ==
            IF GetSession(open2, env.start2)
            THEN IF env.call2 = "ok"
                 THEN Ret(RemoteOutput(name), TRUE, FALSE,
                          events \o <<"remote ok">>, TRUE)
                 ELSE LocalCall(events \o <<"remote raised">>, TRUE)
            ELSE LocalCall(events \o <<"no session">>, FALSE)
        First ==
            IF GetSession(open, env.start1)
            THEN IF env.call1 = "ok"
                 THEN Ret(RemoteOutput(name), TRUE, FALSE, <<"remote ok">>, TRUE)
                 ELSE IF env.reset = "raises"
                 THEN Ret("", FALSE, TRUE, <<"remote raised", "reset raised">>, TRUE)
                 ELSE Second(<<"remote raised", "reset">>, FALSE)
            ELSE Second(<<"no session">>, FALSE)
    IN  IF use_mcp THEN First ELSE LocalCall(<<>>, open)

\* execute_tool_with_confirmation with behavior.use_mcp as the settings give
\* it: validation and gate as in ExecuteToolWithConfirmation, then Execute
ExecuteToolConfigured(level, tc, msgs, use_mcp, open, env) ==
    LET Early(ret) ==
            [result |-> ret.result, needs_confirm |-> ret.needs_confirm,
             dispatched |-> FALSE, raised |-> FALSE, events |-> <<>>,
             session |-> open]
    IN  IF (tc.name \in SCHEMA_MAP /\ ~tc.valid)
           \/ NeedsConfirm(level, tc.name, tc.id, msgs)
        THEN Early(ExecuteToolWithConfirmation(level, tc, msgs))
        ELSE Execute(tc.name, use_mcp, open, env)

(***************************************************************************)
(* Role execution contract                                                 *)
(***************************************************************************)
Prefix(role) ==
    IF role = "coder" THEN "Coder:"
    ELSE IF role = "reviewer" THEN "Reviewer:"
    ELSE IF role = "documenter" THEN "Documenter:"
    ELSE ""

\* The sender prefix put on every non-empty text, prefixed or not.
PrefixedAlways(role, response) ==
    IF role # "recaizade" /\ response.content # ""
    THEN [response EXCEPT !.content = Prefix(role) \o " " \o @]
    ELSE response

\* coder_node, reviewer_node, documenter_node: the sender prefix put on
\* response.content (recaizade_node puts none)
Prefixed(role, response) ==
    IF role # "recaizade" /\ response.content # ""
       /\ ~StartsWith(response.content, Prefix(role))
    THEN [response EXCEPT !.content = Prefix(role) \o " " \o @]
    ELSE response

\* The loop that hands every call to the pipeline before it suspends on the
\* first that needs confirmation.
RunToolCallsAll(level, tcs, msgs) ==
    LET Needs(i) == ExecuteToolWithConfirmation(level, tcs[i], msgs).needs_confirm
        stops == {i \in 1..Len(tcs) : Needs(i)}
        Upto(k) ==
            [handled   |-> [i \in 1..Len(tcs) |->
                              [call |-> tcs[i],
                               ret  |-> ExecuteToolWithConfirmation(level, tcs[i], msgs)]],
             suspended |-> k # 0,
             pending   |-> IF k # 0 THEN tcs[k] ELSE NoTool]
    IN  Upto(IF stops = {} THEN 0 ELSE Min(stops))

\* The loop over response.tool_calls of a role: the calls handed to the
\* pipeline, in order, up to and including the first that needs confirmation.
RunToolCalls(level, tcs, msgs) ==
    LET Needs(i) == ExecuteToolWithConfirmation(level, tcs[i], msgs).needs_confirm
        stops == {i \in 1..Len(tcs) : Needs(i)}
        Upto(k) ==
            [handled   |-> [i \in 1..(IF k = 0 THEN Len(tcs) ELSE k) |->
                              [call |-> tcs[i],
                               ret  |-> ExecuteToolWithConfirmation(level, tcs[i], msgs)]],
             suspended |-> k # 0,
             pending   |-> IF k # 0 THEN tcs[k] ELSE NoTool]
    IN  Upto(IF stops = {} THEN 0 ELSE Min(stops))

Effect(n, i, role, via) == [name |-> n, id |-> i, role |-> role, via |-> via]

IsDispatched(h) == h.ret.dispatched

\* The tool functions a role's loop has called, the last call first.
DispatchEffectsReversed(role, handled) ==
    LET d == SelectSeq(handled, IsDispatched)
    IN  [i \in 1..Len(d) |-> Effect(d[Len(d) + 1 - i].call.name,
                                    d[Len(d) + 1 - i].call.id, role, "pipeline")]

\* The tool functions a role's loop has called, in order.
DispatchEffects(role, handled) ==
    LET d == SelectSeq(handled, IsDispatched)
    IN  [i \in 1..Len(d) |-> Effect(d[i].call.name, d[i].call.id, role, "pipeline")]

\* documenter_node: the text after the first User Report: label, up to the
\* Bot Memory: label or the end
UserReport(final_content) ==
    LET Cut(rest, b) == IF b = 0 THEN Strip(rest) ELSE Strip(Sub(rest, 1, b - 1))
        Rest(rest) == Cut(rest, FindFrom(Upper(rest), "BOT MEMORY:", 1))
        After(u) == IF u = 0 THEN ""
                    ELSE Rest(Sub(final_content, u + 12, Len(final_content)))
    IN  After(FindFrom(Upper(final_content), "USER REPORT:", 1))

\* documenter_node: the text after the first Bot Memory: label
BotMemory(final_content) ==
    LET After(b) == IF b = 0 THEN ""
                    ELSE Strip(Sub(final_content, b + 11, Len(final_content)))
    IN  After(FindFrom(Upper(final_content), "BOT MEMORY:", 1))

\* documenter_node: the files written straight through tool_funcs.write_file
DocumenterWrites(final_content) ==
    (IF UserReport(final_content) # ""
     THEN <<Effect("write_file", "", "documenter", "direct")>> ELSE <<>>)
    \o (IF BotMemory(final_content) # ""
        THEN <<Effect("write_file", "", "documenter", "direct"),
               Effect("write_file", "", "documenter", "direct")>>
        ELSE <<>>)

\* reviewer_node: review_status from the last of the node's messages
ReviewStatus(node_messages) ==
    IF Contains(Upper(node_messages[Len(node_messages)].content), "REVIEW_PASSED")
    THEN "APPROVED" ELSE "REJECTED"

\* recaizade_node, coder_node, reviewer_node, documenter_node: what the node
\* returns for the state msgs and the outcome inv of the model invocation
\* (review_status "" stands for a returned dict without that key).
RoleNode(role, msgs, level, inv) ==
    LET Return(response, run, all) ==
            IF run.suspended
            THEN [messages |-> <<response>>, waiting |-> TRUE, pending |-> run.pending,
                  review_status |-> "", handled |-> run.handled,
                  effects |-> DispatchEffects(role, run.handled)]
            ELSE [messages |-> all, waiting |-> FALSE, pending |-> NoTool,
                  review_status |-> IF role = "reviewer" THEN ReviewStatus(all) ELSE "",
                  handled |-> run.handled,
                  effects |-> DispatchEffects(role, run.handled)
                              \o (IF role = "documenter"
                                  THEN DocumenterWrites(all[Len(all)].content)
                                  ELSE <<>>)]
        Loop(response, run) ==
            Return(response, run,
                   (IF inv.alert # "" THEN <<AIMessage(inv.alert)>> ELSE <<>>)
                   \o <<response>>
                   \o [i \in 1..Len(run.handled) |->
                          ToolMessage(run.handled[i].ret.result,
                                      run.handled[i].call.id,
                                      run.handled[i].call.name)])
        Respond(response) ==
            Loop(response, RunToolCalls(level, response.tool_calls, msgs))
    IN  Respond(Prefixed(role, inv.response))

RECURSIVE FilesSummary(_)
\* executor_node: the lines of executed_files
FilesSummary(blocks) ==
    IF blocks = <<>> THEN ""
    ELSE (IF blocks[1].written
          THEN " - " \o blocks[1].filename \o ": " \o ToolOutput("write_file")
          ELSE " - [Skipped]")
         \o FilesSummary(Tail(blocks))

IsWritten(b) == b.written

\* executor_node: parses the last message and writes the files it names
\* straight through tool_funcs.write_file.  Every code block adds an entry
\* to executed_files, so the text for code without entries never appears.
ExecutorNode(msgs) ==
    LET Write(blocks, written) ==
            [messages |-> <<AIMessage(
                             IF blocks # <<>>
                             THEN "Executor: I have implemented the Coder's solution. Files processed:"
                                  \o FilesSummary(blocks)
                             ELSE "Executor: I could not find properly formatted code blocks to execute.")>>,
             effects  |-> [i \in 1..Len(written) |->
                              Effect("write_file", "", "executor", "direct")]]
        Parse(blocks) == Write(blocks, SelectSeq(blocks, IsWritten))
    IN  Parse(ExecutorBlocks(msgs[Len(msgs)].content))

(***************************************************************************)
(* Environment: what the user types, what a model answers, how it fails    *)
(***************************************************************************)
UserInputs ==
    {" ", "hi", "/task x", "APPROVE_TOOL:write_file:c1"}

ModelResponses ==
    {ModelMessage("REVIEW_PASSED", <<>>),
     ModelMessage("File: a.py\n~~~\nx\n~~~\nBot Memory: m", <<>>),
     ModelMessage("", <<ToolCall("write_file", "c1", TRUE)>>),
     ModelMessage("REVIEW_PASSED", <<ToolCall("read_file", "c1", TRUE)>>),
     ModelMessage("ok", <<ToolCall("read_file", "c1", TRUE),
                          ToolCall("write_file", "c12", TRUE)>>)}

ErrorTexts == {"429 Too Many Requests"}

ModelOutcomes ==
    {[fails |-> 0, fallback_fails |-> FALSE, error |-> e] : e \in ErrorTexts}
    \cup {[fails |-> Retries + 1, fallback_fails |-> f, error |-> e] :
            f \in BOOLEAN, e \in ErrorTexts}

(***************************************************************************)
(* The session                                                             *)
(***************************************************************************)
NoRun ==
    [role |-> "none", returned |-> <<>>, handled |-> <<>>,
     waiting |-> FALSE, pending |-> NoTool, alert |-> "", next |-> ""]

NoTurn == [start |-> "none", task |-> FALSE, resumes |-> "", passed |-> FALSE]

NoGate == [stage |-> "none"]

NoInvocation == [stage |-> "none"]

NoRouting == [stage |-> "none"]

\* RecaizadeApp.__init__ with the settings loaded: level is the value of
\* behavior.tool_confirmation
Started(level) ==
    /\ conversation_history = <<>>
    /\ messages = <<>>
    /\ next_node = ""
    /\ task_description = ""
    /\ review_status = ""
    /\ waiting_confirmation = FALSE
    /\ pending_tool = NoTool
    /\ pc = "idle"
    /\ provider = "gemini"
    /\ confirmation_level = level
    /\ effects = <<>>
    /\ last_run = NoRun
    /\ turn = NoTurn
    /\ role_tools \in RoleToolSettings
    /\ config_provider = "gemini"

\* RecaizadeApp.__init__ and the defaults of the settings
Constructed == Started("dangerous")

Init ==
    /\ Constructed
    /\ gate = NoGate
    /\ invocation = NoInvocation
    /\ routing = NoRouting

\* run_graph: the initial_state handed to app_graph.astream
StartRun(history) ==
    /\ messages' = history
    /\ next_node' = ""
    /\ task_description' = ""
    /\ review_status' = ""
    /\ waiting_confirmation' = FALSE
    /\ pending_tool' = NoTool
    /\ pc' = "router"

\* msg not in self.conversation_history
NotIn(msg, history) == msg.run \/ \A i \in 1..Len(history) : history[i] # msg

\* The history replaced by the messages of the event instead of extended.
HistoryReplaced(history, new) == new

RECURSIVE AppendNew(_, _)
\* run_graph: the messages of an event, appended unless already present
AppendNew(history, new) ==
    IF new = <<>> THEN history
    ELSE AppendNew(IF NotIn(new[1], history) THEN Append(history, new[1]) ELSE history,
                   Tail(new))

\* on_input_submitted.  The user types between runs: a turn runs to its end
\* or to the confirmation gate, and the modal confirmation screen covers the
\* input box while it is open.
SubmitInput ==
    /\ pc \in {"idle", "end"}
    /\ Len(conversation_history) < MaxHistory
    /\ \E user_input \in UserInputs :
         IF Strip(user_input) = "" THEN UNCHANGED vars
         ELSE /\ conversation_history' = Append(conversation_history, HumanMessage(user_input))
              /\ StartRun(conversation_history')
              /\ turn' = [start   |-> "input",
                          task    |-> IsTaskCommand(HumanMessage(user_input)),
                          resumes |-> IF /\ pc = "idle"
                                         /\ last_run.waiting
                                         /\ Contains(user_input,
                                                ApprovalMarker(last_run.pending.name,
                                                               last_run.pending.id))
                                      THEN last_run.role ELSE "",
                          passed  |-> FALSE]
              /\ UNCHANGED <<provider, confirmation_level, effects, last_run, gate, role_tools, invocation, config_provider, routing>>

\* ModelManager.reload_models: the provider the settings name, or ollama
\* when the gemini models cannot be constructed
ReloadModels(config_prov, init_ok) ==
    IF config_prov = "gemini" /\ init_ok THEN "gemini" ELSE "ollama"

\* SettingsScreen.commit_change and apply_settings(True).  The user edits one
\* setting between turns: the provider (p is the value chosen), or a setting
\* that is no part of this state (p is the provider already configured);
\* either way the models are reloaded.
CommitChange ==
    /\ pc \in {"idle", "end"}
    /\ \E p \in {"gemini", "ollama"}, init_ok \in BOOLEAN :
         /\ config_provider' = p
         /\ provider' = ReloadModels(p, init_ok)
    /\ UNCHANGED <<conversation_history, messages, next_node, task_description,
                   review_status, waiting_confirmation, pending_tool, pc,
                   confirmation_level, effects, last_run, turn, gate,
                   role_tools, invocation, routing>>

\* handle_confirmation, the callback of ToolConfirmationScreen
HandleConfirmation ==
    /\ pc = "confirm"
    /\ \E approved \in BOOLEAN :
         LET last_msg == conversation_history[Len(conversation_history)]
         IN  IF conversation_history = <<>>
                \/ ~(last_msg.type = "ai" /\ last_msg.tool_calls # <<>>)
             THEN /\ pc' = "idle"
                  /\ UNCHANGED <<conversation_history, messages, next_node,
                                 task_description, review_status,
                                 waiting_confirmation, pending_tool, provider,
                                 confirmation_level, effects, last_run, turn, gate, role_tools, invocation, config_provider, routing>>
             ELSE LET tool_call == last_msg.tool_calls[1]
                      msg == IF approved
                             THEN HumanMessage(ApprovalMarker(tool_call.name, tool_call.id))
                             ELSE ToolMessage("Error: Tool execution denied by user.",
                                              tool_call.id, tool_call.name)
                  IN  /\ Len(conversation_history) < MaxHistory
                      /\ conversation_history' = Append(conversation_history, msg)
                      /\ StartRun(conversation_history')
                      /\ turn' = [start   |-> IF approved THEN "approve" ELSE "deny",
                                  task    |-> FALSE,
                                  resumes |-> last_run.role,
                                  passed  |-> FALSE]
                      /\ UNCHANGED <<provider, confirmation_level, effects, last_run, gate, role_tools, invocation, config_provider, routing>>

\* router_node and route_input
Router ==
    /\ pc = "router"
    /\ LET res == RouterNode(messages)
       IN  /\ next_node' = res.next_node
           /\ task_description' = res.task_description
           /\ pc' = res.next_node
    /\ UNCHANGED <<conversation_history, messages, review_status,
                   waiting_confirmation, pending_tool, provider,
                   confirmation_level, effects, last_run, turn, gate, role_tools, invocation, config_provider, routing>>

\* The edges with a second back-edge, from Reviewer to Coder on a rejection.
SuccessorReviewerLoops(role, msgs, status) ==
    IF role = "recaizade" THEN "end"
    ELSE IF role = "coder" THEN "executor"
    ELSE IF role = "executor" THEN "reviewer"
    ELSE IF role = "reviewer"
         THEN (IF status = "APPROVED" THEN "documenter" ELSE "coder")
    ELSE RouteDocumenter(msgs, status)

\* The edge that leaves a node once its update is applied.
Successor(role, msgs, status) ==
    IF role = "recaizade" THEN "end"
    ELSE IF role = "coder" THEN "executor"
    ELSE IF role = "executor" THEN "reviewer"
    ELSE IF role = "reviewer" THEN "documenter"
    ELSE RouteDocumenter(msgs, status)

\* The handling of an event that does not leave the stream on a suspension.
AfterEventGoesOn(waiting, history, returned, next) ==
    [history |-> AppendNew(history, returned), pc |-> next]

\* run_graph: the handling of one streamed event.  A suspension leaves the
\* stream (nothing of the event is appended, the graph is not resumed);
\* otherwise the new messages are appended and the graph goes on.
AfterEvent(waiting, history, returned, next) ==
    IF waiting
    THEN [history |-> history, pc |-> "confirm"]
    ELSE [history |-> AppendNew(history, returned), pc |-> next]

\* One model-backed node (recaizade, coder, reviewer, documenter) and the
\* handling of its event by run_graph.
RoleStep(role) ==
    /\ \E resp \in ModelResponses, out \in ModelOutcomes :
         /\ \A k \in 1..Len(resp.tool_calls) :
               resp.tool_calls[k].name
                   \in BoundTools(provider, out, GetToolsForRole(role_tools, role))
         /\ \E inv \in {InvokeModelWithFallback(provider, resp, out)} :
            \E r \in {RoleNode(role, messages, confirmation_level, inv)} :
            \E msgs \in {messages \o r.messages} :
            \E status \in {IF r.review_status # "" THEN r.review_status ELSE review_status} :
            \E next \in {Successor(role, msgs, status)} :
            \E ev \in {AfterEvent(r.waiting, conversation_history, r.messages, next)} :
                /\ Len(msgs) <= MaxMessages
                /\ Len(ev.history) <= MaxHistory
                /\ Len(effects) + Len(r.effects) <= MaxEffects
                /\ messages' = msgs
                /\ review_status' = status
                /\ waiting_confirmation' = r.waiting
                /\ pending_tool' = IF r.waiting THEN r.pending ELSE pending_tool
                /\ provider' = inv.provider
                /\ effects' = effects \o r.effects
                /\ conversation_history' = ev.history
                /\ pc' = ev.pc
                /\ last_run' = [role |-> role, returned |-> r.messages,
                                handled |-> r.handled, waiting |-> r.waiting,
                                pending |-> r.pending, alert |-> inv.alert,
                                next |-> IF r.waiting THEN "" ELSE next]
                /\ turn' = [turn EXCEPT !.passed =
                               @ \/ (role = "reviewer"
                                     /\ Contains(inv.response.content, "REVIEW_PASSED"))]
    /\ UNCHANGED <<next_node, task_description, confirmation_level, gate, role_tools, invocation, config_provider, routing>>

Recaizade ==
    /\ pc = "recaizade"
    /\ RoleStep("recaizade")

Coder ==
    /\ pc = "coder"
    /\ RoleStep("coder")

Reviewer ==
    /\ pc = "reviewer"
    /\ RoleStep("reviewer")

Documenter ==
    /\ pc = "documenter"
    /\ RoleStep("documenter")

\* executor_node and the handling of its event by run_graph
Executor ==
    /\ pc = "executor"
    /\ \E r \in {ExecutorNode(messages)} :
       \E msgs \in {messages \o r.messages} :
       \E ev \in {AfterEvent(FALSE, conversation_history, r.messages, "reviewer")} :
           /\ Len(msgs) <= MaxMessages
           /\ Len(ev.history) <= MaxHistory
           /\ Len(effects) + Len(r.effects) <= MaxEffects
           /\ messages' = msgs
           /\ effects' = effects \o r.effects
           /\ conversation_history' = ev.history
           /\ pc' = ev.pc
           /\ last_run' = [role |-> "executor",
                           returned |-> r.messages, handled |-> <<>>,
                           waiting |-> FALSE, pending |-> NoTool, alert |-> "",
                           next |-> "reviewer"]
    /\ UNCHANGED <<next_node, task_description, review_status,
                   waiting_confirmation, pending_tool, provider,
                   confirmation_level, turn, gate, role_tools, invocation, config_provider, routing>>

Next ==
    \/ SubmitInput
    \/ HandleConfirmation
    \/ Router
    \/ Recaizade
    \/ Coder
    \/ Executor
    \/ Reviewer
    \/ Documenter

Spec == Init /\ [][Next]_vars

\* The session with the settings screen: between turns the user may also
\* commit a change of the settings.
SettingsNext ==
    \/ Next
    \/ CommitChange

SpecSettings == Init /\ [][SettingsNext]_vars

(***************************************************************************)
(* execute_tool_with_confirmation taken alone, on arguments drawn from     *)
(* small sets: every policy, registered and unregistered tools, two call   *)
(* ids of which one is a prefix of the other, and short histories.         *)
(***************************************************************************)
GateLevels == {"all", "dangerous", "none"}

GateCalls ==
    {ToolCall(n, i, v) : n \in {"write_file", "run_command", "read_file", "no_such_tool"},
                         i \in {"c1", "c12"}, v \in BOOLEAN}

GateMessages ==
    {HumanMessage("APPROVE_TOOL:write_file:c1"),
     HumanMessage("APPROVE_TOOL:write_file:c12"),
     HumanMessage("hi"),
     AIMessage("APPROVE_TOOL:write_file:c1"),
     ToolMessage("Error: Tool execution denied by user.", "c1", "write_file")}

GateHistories ==
    UNION {[1..n -> GateMessages] : n \in 0..MaxGateHistory}

GateInit ==
    /\ Constructed
    /\ invocation = NoInvocation
    /\ routing = NoRouting
    /\ \E level \in GateLevels, tc \in GateCalls, msgs \in GateHistories :
         gate = [stage |-> "call", level |-> level, call |-> tc, msgs |-> msgs]

\* One call: result_str, needs_confirm = execute_tool_with_confirmation(...)
GateCall ==
    /\ gate.stage = "call"
    /\ gate' = [stage |-> "returned", level |-> gate.level, call |-> gate.call,
                msgs  |-> gate.msgs,
                ret   |-> ExecuteToolWithConfirmation(gate.level, gate.call, gate.msgs)]
    /\ UNCHANGED <<conversation_history, messages, next_node, task_description,
                   review_status, waiting_confirmation, pending_tool, pc,
                   provider, confirmation_level, effects, last_run, turn,
                   role_tools, invocation, config_provider, routing>>

GateNext == GateCall

SpecGate == GateInit /\ [][GateNext]_vars

(***************************************************************************)
(* The confirmation policies auto and all: a session started with a        *)
(* settings file that names the policy, and, apart from it, one call of    *)
(* execute_tool_with_confirmation under that policy.                       *)
(***************************************************************************)
PolicyLevels == {"auto", "all"}

PolicyInit ==
    /\ invocation = NoInvocation
    /\ routing = NoRouting
    /\ \E level \in PolicyLevels :
         /\ Started(level)
         /\ \/ gate = NoGate
            \/ \E tc \in GateCalls, msgs \in GateHistories :
                  gate = [stage |-> "call", level |-> level, call |-> tc, msgs |-> msgs]

\* The session runs when no single call is set up; a call that is set up is
\* taken alone.
PolicyNext ==
    \/ gate = NoGate /\ Next
    \/ GateCall

SpecPolicy == PolicyInit /\ [][PolicyNext]_vars

(***************************************************************************)
(* invoke_model_with_fallback taken alone: either provider active at       *)
(* entry, every number of failing attempts, a fallback call that answers   *)
(* or raises, and the error texts a provider raises.                       *)
(***************************************************************************)
InvokeErrorTexts ==
    {"Resource has been exhausted (e.g. check quota).",
     "429 Too Many Requests",
     "429 Too Many Requests for this API key",
     "Invalid API key",
     "The service is currently unavailable.",
     "Deadline exceeded",
     "Some other weird error"}

InvokeOutcomes ==
    {[fails |-> n, fallback_fails |-> f, error |-> e] :
        n \in 0..(Retries + 1), f \in BOOLEAN, e \in InvokeErrorTexts}

InvokeInit ==
    /\ Constructed
    /\ gate = NoGate
    /\ routing = NoRouting
    /\ \E prov \in {"gemini", "ollama"}, resp \in ModelResponses, out \in InvokeOutcomes :
         invocation = [stage |-> "call", provider |-> prov, resp |-> resp, out |-> out]

\* One call: response, alert = await invoke_model_with_fallback(...)
InvokeCall ==
    /\ invocation.stage = "call"
    /\ invocation' = [stage    |-> "returned",
                      provider |-> invocation.provider,
                      resp     |-> invocation.resp,
                      out      |-> invocation.out,
                      ret      |-> InvokeModelWithFallback(invocation.provider,
                                                           invocation.resp,
                                                           invocation.out)]
    /\ UNCHANGED <<conversation_history, messages, next_node, task_description,
                   review_status, waiting_confirmation, pending_tool, pc,
                   provider, confirmation_level, effects, last_run, turn,
                   gate, role_tools, config_provider, routing>>

InvokeNext == InvokeCall

SpecInvoke == InvokeInit /\ [][InvokeNext]_vars

(***************************************************************************)
(* A role node taken alone: the call of invoke_model_with_fallback above,  *)
(* then the node's handling of the pair it returned, for every role and    *)
(* for a state with and without the approval of the requested tool.        *)
(***************************************************************************)
NodeStates ==
    {<<HumanMessage("hi")>>, <<HumanMessage("APPROVE_TOOL:write_file:c1")>>}

\* response, alert = await invoke_model_with_fallback(...) has returned; the
\* node builds node_messages, runs the tool requests and returns.
NodeHandle ==
    /\ invocation.stage = "returned"
    /\ \E role \in Roles, msgs \in NodeStates :
         invocation' = [stage    |-> "handled",
                        provider |-> invocation.provider,
                        resp     |-> invocation.resp,
                        out      |-> invocation.out,
                        ret      |-> invocation.ret,
                        role     |-> role,
                        msgs     |-> msgs,
                        node     |-> RoleNode(role, msgs, confirmation_level,
                                              invocation.ret)]
    /\ UNCHANGED <<conversation_history, messages, next_node, task_description,
                   review_status, waiting_confirmation, pending_tool, pc,
                   provider, confirmation_level, effects, last_run, turn,
                   gate, role_tools, config_provider, routing>>

NodeNext ==
    \/ InvokeCall
    \/ NodeHandle

SpecNode == InvokeInit /\ [][NodeNext]_vars

(***************************************************************************)
(* A role node taken alone under each confirmation policy: as above, with  *)
(* the policy the settings name drawn from the three the settings offer.   *)
(***************************************************************************)
NodePolicyLevels == {"auto", "dangerous", "all"}

NodePolicyInit ==
    /\ gate = NoGate
    /\ routing = NoRouting
    /\ \E level \in NodePolicyLevels : Started(level)
    /\ \E prov \in {"gemini", "ollama"}, resp \in ModelResponses, out \in InvokeOutcomes :
         invocation = [stage |-> "call", provider |-> prov, resp |-> resp, out |-> out]

SpecNodePolicy == NodePolicyInit /\ [][NodeNext]_vars

(***************************************************************************)
(* router_node taken alone, on the histories a run can be seeded with:     *)
(* task commands (one with the token a second time inside its text), plain *)
(* input, approval and denial markers, assistant messages of every sender  *)
(* and a tool result.                                                      *)
(***************************************************************************)
MaxRouterHistory == 3   \* messages in the state handed to one router call

RouterMessages ==
    {HumanMessage("/task x"),
     HumanMessage(" /task doc /task"),
     HumanMessage("hi"),
     HumanMessage("APPROVE_TOOL:write_file:c1"),
     HumanMessage("DENY_TOOL:write_file:c1"),
     ModelMessage("Coder: c", <<ToolCall("write_file", "c1", TRUE)>>),
     AIMessage("Executor: I could not find properly formatted code blocks to execute."),
     ModelMessage("Reviewer: REVIEW_PASSED", <<>>),
     ModelMessage("Documenter: d", <<>>),
     ModelMessage("ok", <<ToolCall("read_file", "c1", TRUE)>>),
     ToolMessage("Error: Tool execution denied by user.", "c1", "write_file")}

RouterHistories ==
    UNION {[1..n -> RouterMessages] : n \in 0..MaxRouterHistory}

RouterInit ==
    /\ Constructed
    /\ gate = NoGate
    /\ invocation = NoInvocation
    /\ \E msgs \in RouterHistories : routing = [stage |-> "call", msgs |-> msgs]

\* One call: router_node(state)
RouterCall ==
    /\ routing.stage = "call"
    /\ routing' = [stage |-> "returned", msgs |-> routing.msgs,
                   ret   |-> RouterNode(routing.msgs)]
    /\ UNCHANGED <<conversation_history, messages, next_node, task_description,
                   review_status, waiting_confirmation, pending_tool, pc,
                   provider, confirmation_level, effects, last_run, turn,
                   gate, role_tools, invocation, config_provider>>

RouterNext == RouterCall

SpecRouter == RouterInit /\ [][RouterNext]_vars

(***************************************************************************)
(* A role node taken alone on the responses a model can also give: tool    *)
(* requests whose arguments fail the schema of the tool (alone, and ahead  *)
(* of a request with valid arguments), and texts that already carry the    *)
(* sender prefix of a role.                                                *)
(***************************************************************************)
NodeResponses ==
    ModelResponses
    \cup {ModelMessage("", <<ToolCall("write_file", "c1", FALSE)>>),
          ModelMessage("ok", <<ToolCall("write_file", "c1", FALSE),
                               ToolCall("read_file", "c12", TRUE)>>),
          ModelMessage("Coder: done", <<>>),
          ModelMessage("Reviewer: REVIEW_PASSED", <<>>),
          ModelMessage("Documenter: d", <<>>)}

NodeResponsesInit ==
    /\ gate = NoGate
    /\ routing = NoRouting
    /\ \E level \in NodePolicyLevels : Started(level)
    /\ \E prov \in {"gemini", "ollama"}, resp \in NodeResponses, out \in ModelOutcomes :
         invocation = [stage |-> "call", provider |-> prov, resp |-> resp, out |-> out]

SpecNodeResponses == NodeResponsesInit /\ [][NodeNext]_vars

(***************************************************************************)
(* execute_tool_with_confirmation with its settings and its environment:   *)
(* the policy read from each settings file, the remote session configured  *)
(* or not, open or not at entry, and every way the session start, the      *)
(* remote calls, the session reset and the in-process function can end.    *)
(***************************************************************************)
ExecuteCalls ==
    {ToolCall(n, "c1", v) : n \in {"write_file", "read_file", "no_such_tool"},
                            v \in BOOLEAN}

ExecuteHistories ==
    {<<HumanMessage("hi")>>, <<HumanMessage("APPROVE_TOOL:write_file:c1")>>}

\* Without the remote session configured only the in-process function is
\* part of the environment.
ExecuteConditions ==
    {[use_mcp |-> TRUE, open |-> o, env |-> e] : o \in BOOLEAN, e \in ExecuteEnvs}
    \cup {[use_mcp |-> FALSE, open |-> FALSE, env |-> e] :
            e \in {x \in ExecuteEnvs : /\ x.start1 = "ok" /\ x.call1 = "ok"
                                       /\ x.reset = "ok"
                                       /\ x.start2 = "ok" /\ x.call2 = "ok"}}

ExecuteInit ==
    /\ invocation = NoInvocation
    /\ routing = NoRouting
    /\ \E file \in SettingsFiles, tc \in ExecuteCalls, msgs \in ExecuteHistories,
          cond \in ExecuteConditions :
         /\ Started(ConfigGet(LoadBehavior(file), "tool_confirmation"))
         /\ gate = [stage |-> "call", file |-> file, call |-> tc, msgs |-> msgs,
                    use_mcp |-> cond.use_mcp, open |-> cond.open, env |-> cond.env]

\* One call: await execute_tool_with_confirmation(name, args, id, messages)
ExecuteCall ==
    /\ gate.stage = "call"
    /\ gate' = [stage   |-> "returned",
                file    |-> gate.file,
                call    |-> gate.call,
                msgs    |-> gate.msgs,
                use_mcp |-> gate.use_mcp,
                open    |-> gate.open,
                env     |-> gate.env,
                ret     |-> ExecuteToolConfigured(confirmation_level, gate.call,
                                                  gate.msgs, gate.use_mcp,
                                                  gate.open, gate.env)]
    /\ UNCHANGED <<conversation_history, messages, next_node, task_description,
                   review_status, waiting_confirmation, pending_tool, pc,
                   provider, confirmation_level, effects, last_run, turn,
                   role_tools, invocation, config_provider, routing>>

ExecuteNext == ExecuteCall

SpecExecute == ExecuteInit /\ [][ExecuteNext]_vars

(***************************************************************************)
(* Properties                                                              *)
(***************************************************************************)
\* A user message of msgs whose text carries APPROVE_TOOL:name:id
UserMarker(msgs, name, id) ==
    \E i \in 1..Len(msgs) :
        /\ msgs[i].type = "human"
        /\ Contains(msgs[i].content, "APPROVE_TOOL:" \o name \o ":" \o id)

\* C1: under policy dangerous, a call for a dangerous tool with valid
\* arguments returns CONFIRMATION_REQUIRED:name:id with needs_confirmation
\* true and dispatches nothing when no user message of the history carries
\* APPROVE_TOOL:name:id; when one does, the tool is dispatched and
\* needs_confirmation is false.
C1_GateAsksUnlessApproved ==
    (/\ gate.stage = "returned"
     /\ gate.level = "dangerous"
     /\ gate.call.name \in DANGEROUS_TOOLS
     /\ gate.call.valid)
    => IF UserMarker(gate.msgs, gate.call.name, gate.call.id)
       THEN gate.ret.dispatched /\ ~gate.ret.needs_confirm
       ELSE /\ gate.ret.result
                 = "CONFIRMATION_REQUIRED:" \o gate.call.name \o ":" \o gate.call.id
            /\ gate.ret.needs_confirm
            /\ ~gate.ret.dispatched

\* C1, its case: an approved dangerous call has been dispatched.
C1_Witness ==
    /\ gate.stage = "returned"
    /\ gate.level = "dangerous"
    /\ gate.call = ToolCall("write_file", "c1", TRUE)
    /\ UserMarker(gate.msgs, "write_file", "c1")
    /\ gate.ret.dispatched

\* C2: under policy dangerous, every dangerous operation performed so far
\* went through the confirmation gate and has its approval marker in the
\* history.
C2_DangerousEffectsApproved ==
    confirmation_level = "dangerous"
    => \A k \in 1..Len(effects) :
          effects[k].name \in DANGEROUS_TOOLS
          => /\ effects[k].via = "pipeline"
             /\ UserMarker(conversation_history, effects[k].name, effects[k].id)

\* C3: a call the policy requires to be confirmed is dispatched only when a
\* user message of the history is the approval of exactly its name and call
\* id; the approval of another call id does not authorize it.
C3_ExactApprovalOnly ==
    (/\ gate.stage = "returned"
     /\ \/ gate.level = "all"
        \/ gate.level = "dangerous" /\ gate.call.name \in DANGEROUS_TOOLS
     /\ gate.ret.dispatched)
    => \E i \in 1..Len(gate.msgs) :
          /\ gate.msgs[i].type = "human"
          /\ gate.msgs[i].content
               = "APPROVE_TOOL:" \o gate.call.name \o ":" \o gate.call.id

C5_RouterResumesSuspendedRole ==
    (turn.resumes # "" /\ next_node # "") => next_node = turn.resumes

\* C6: the history is append-only: every step leaves conversation_history a
\* prefix of its new value, and inside a run AgentState.messages as well.
C6_HistoryAppendOnly ==
    [][/\ Len(conversation_history) <= Len(conversation_history')
       /\ SubSeq(conversation_history', 1, Len(conversation_history))
            = conversation_history
       /\ pc' # "router"
          => /\ Len(messages) <= Len(messages')
             /\ SubSeq(messages', 1, Len(messages)) = messages]_vars

\* C6, its case: a crew turn has run to its end and its messages are in the
\* history.
C6_Witness ==
    /\ pc = "end"
    /\ last_run.role = "documenter"
    /\ Len(conversation_history) >= 5

\* C7: every tool result of the history answers exactly one tool request of
\* an earlier assistant message, and no call id is answered twice.
C7_CallIdLinkage ==
    \A i \in 1..Len(messages) :
        messages[i].type = "tool"
        => /\ Cardinality({jk \in (1..(i - 1)) \X (1..2) :
                              /\ messages[jk[1]].type = "ai"
                              /\ jk[2] <= Len(messages[jk[1]].tool_calls)
                              /\ messages[jk[1]].tool_calls[jk[2]].id
                                   = messages[i].tool_call_id}) = 1
           /\ \A j \in 1..Len(messages) :
                 (j # i /\ messages[j].type = "tool")
                 => messages[j].tool_call_id # messages[i].tool_call_id

\* C8: a tool whose approval is in the history has been executed at most
\* once for its call id.
C8_ApprovedCallRunsOnce ==
    \A a, b \in 1..Len(effects) :
        (/\ effects[a].via = "pipeline"
         /\ effects[b].via = "pipeline"
         /\ effects[a].name = effects[b].name
         /\ effects[a].id = effects[b].id
         /\ UserMarker(conversation_history, effects[a].name, effects[a].id))
        => a = b

\* C9: every tool request the latest role handed to the pipeline has
\* exactly one tool result in the messages the role returned, or it is the
\* pending tool of the suspension.
C9_OneResultPerRequest ==
    \A k \in 1..Len(last_run.handled) :
        \/ Cardinality({i \in 1..Len(last_run.returned) :
                          /\ last_run.returned[i].type = "tool"
                          /\ last_run.returned[i].tool_call_id
                               = last_run.handled[k].call.id}) = 1
        \/ /\ last_run.waiting
           /\ last_run.handled[k].call = last_run.pending

\* C10: in a turn started by a task command, a Documenter run that comes
\* after the Reviewer emitted text containing REVIEW_PASSED is followed by
\* End.
C10_PassEndsCrew ==
    (/\ turn.task
     /\ turn.passed
     /\ last_run.role = "documenter"
     /\ ~last_run.waiting)
    => last_run.next = "end"

\* C11: a Documenter run that does not suspend is followed by Coder exactly
\* when review_status is not APPROVED and the last message does not contain
\* [SYSTEM ALERT]; in every other case it is followed by End.
C11_DocumenterBackEdge ==
    [][(pc = "documenter" /\ pc' # "documenter" /\ ~waiting_confirmation')
       => /\ pc' \in {"coder", "end"}
          /\ pc' = "coder"
             <=> /\ review_status' # "APPROVED"
                 /\ ~Contains(messages'[Len(messages')].content, "[SYSTEM ALERT]")]_vars

\* C11, its case: the review is not approved, the Documenter's last message
\* carries a system alert, and the turn has ended.
C11_Witness ==
    /\ pc = "end"
    /\ last_run.role = "documenter"
    /\ ~last_run.waiting
    /\ review_status # "APPROVED"
    /\ Contains(messages[Len(messages)].content, "[SYSTEM ALERT]")

\* C12: a turn starts at the router; the router is followed by the
\* Coordinator or by a role of the cycle; the Coordinator is followed by End;
\* Coder, Executor and Reviewer are followed by Executor, Reviewer and
\* Documenter; Documenter is followed by Coder or End.  A suspension at the
\* confirmation gate cuts the sequence after the role that suspended, and
\* nothing else follows a role.
C12_RoleSequences ==
    [][pc' # pc
       => \/ pc \in {"idle", "end", "confirm"} /\ pc' \in {"router", "idle"}
          \/ pc = "router"
             /\ pc' \in {"recaizade", "coder", "executor", "reviewer", "documenter"}
          \/ pc \in {"recaizade", "coder", "reviewer", "documenter"}
             /\ pc' = "confirm" /\ waiting_confirmation'
          \/ pc = "recaizade" /\ pc' = "end"
          \/ pc = "coder" /\ pc' = "executor"
          \/ pc = "executor" /\ pc' = "reviewer"
          \/ pc = "reviewer" /\ pc' = "documenter"
          \/ pc = "documenter" /\ pc' \in {"coder", "end"}]_vars

\* C12, its case: the back-edge from Documenter to Coder has been taken.
C12_Witness ==
    /\ pc = "coder"
    /\ last_run.role = "documenter"
    /\ last_run.next = "coder"

\* C13: when the primary is active, every attempt on it raises an error
\* containing 429 and the call made on the secondary answers, the alert
\* contains the rate-limit/quota classification, the provider after the
\* call is the secondary and the response returned is the secondary's.
C13_FallbackDeterminism ==
    (/\ invocation.stage = "returned"
     /\ invocation.provider = "gemini"
     /\ invocation.out.fails > Retries
     /\ Contains(invocation.out.error, "429")
     /\ ~invocation.out.fallback_fails)
    => /\ Contains(invocation.ret.alert, "Rate limit exceeded or Quota exhausted")
       /\ invocation.ret.provider = "ollama"
       /\ invocation.ret.response = invocation.resp

\* C13, its case: the primary raised a 429 error with an API key text on
\* every attempt and the secondary answered.
C13_Witness ==
    /\ invocation.stage = "returned"
    /\ invocation.provider = "gemini"
    /\ invocation.out.fails > Retries
    /\ invocation.out.error = "429 Too Many Requests for this API key"
    /\ ~invocation.out.fallback_fails
    /\ invocation.ret.provider = "ollama"

\* C14: after a role run in which the fallback layer switched to the
\* secondary, the provider is the secondary in every later state.
C14_ProviderStaysSecondary ==
    last_run.alert # "" => provider = "ollama"

\* C15: with either provider active at entry and for every combination of
\* failing attempts and a failing fallback call, invoke_model_with_fallback
\* raises nothing and returns an assistant message together with an alert
\* that is absent or a [SYSTEM ALERT] text.
C15_InvokeNeverRaises ==
    invocation.stage = "returned"
    => /\ ~invocation.ret.raised
       /\ invocation.ret.response.type = "ai"
       /\ \/ invocation.ret.alert = ""
          \/ StartsWith(invocation.ret.alert, "[SYSTEM ALERT]")

\* C15, its case: the local model was active at entry and failed on every
\* attempt, and the call returned a message.
C15_Witness ==
    /\ invocation.stage = "returned"
    /\ invocation.provider = "ollama"
    /\ invocation.out.fails > Retries
    /\ invocation.ret.response.type = "ai"
    /\ Contains(invocation.ret.response.content, "Local model (Ollama) failed")

\* C16: with the primary active at entry, one invocation makes at most
\* Retries + 1 calls on the primary; it switches to the secondary exactly
\* when all Retries + 1 have failed and then makes exactly one call on the
\* secondary; an attempt that answers is the last call.  So one invocation
\* makes at most Retries + 2 model calls.
C16_CallBudget ==
    (invocation.stage = "returned" /\ invocation.provider = "gemini")
    => /\ invocation.ret.calls <= Retries + 1
       /\ invocation.ret.calls + invocation.ret.fallback_calls <= Retries + 2
       /\ IF invocation.out.fails > Retries
          THEN /\ invocation.ret.calls = Retries + 1
               /\ invocation.ret.fallback_calls = 1
               /\ invocation.ret.provider = "ollama"
          ELSE /\ invocation.ret.calls = invocation.out.fails + 1
               /\ invocation.ret.fallback_calls = 0
               /\ invocation.ret.provider = "gemini"
               /\ invocation.ret.response = invocation.resp

\* C16, its case: the primary failed Retries + 1 times and the one call on
\* the secondary was made.
C16_Witness ==
    /\ invocation.stage = "returned"
    /\ invocation.provider = "gemini"
    /\ invocation.out.fails = Retries + 1
    /\ invocation.ret.calls = Retries + 1
    /\ invocation.ret.fallback_calls = 1

\* C17: when the call made after a switch fails, or when the secondary was
\* active at entry and its attempts fail, the invocation returns a synthetic
\* assistant message whose text is a critical-failure alert containing
\* [SYSTEM ALERT]; the failed secondary is not called again after a switch
\* and the provider stays the secondary.
C17_CriticalFailure ==
    (/\ invocation.stage = "returned"
     /\ invocation.out.fails > Retries
     /\ invocation.provider = "gemini" => invocation.out.fallback_fails)
    => /\ invocation.ret.response.type = "ai"
       /\ ~invocation.ret.response.run
       /\ invocation.ret.response.tool_calls = <<>>
       /\ Contains(invocation.ret.response.content, "[SYSTEM ALERT]")
       /\ Contains(invocation.ret.response.content, "Critical Error")
       /\ invocation.ret.provider = "ollama"
       /\ invocation.ret.calls = Retries + 1
       /\ invocation.ret.fallback_calls
            = (IF invocation.provider = "gemini" THEN 1 ELSE 0)

\* C17, its case: the primary was exhausted and the call on the secondary
\* failed as well.
C17_Witness ==
    /\ invocation.stage = "returned"
    /\ invocation.provider = "gemini"
    /\ invocation.out.fails > Retries
    /\ invocation.out.fallback_fails
    /\ Contains(invocation.ret.response.content, "Fallback to Ollama failed")

\* The classification an error text is to get: rate-limit/quota, invalid
\* credential, service unavailable, timeout, or unknown.
ExpectedReason(error) ==
    IF Contains(error, "429") \/ Contains(Lower(error), "quota")
    THEN "Rate limit exceeded or Quota exhausted"
    ELSE IF Contains(Lower(error), "api key")
    THEN "Invalid or expired API Key"
    ELSE IF Contains(error, "503") \/ Contains(Lower(error), "unavailable")
    THEN "Service unavailable"
    ELSE IF Contains(Lower(error), "deadline exceeded")
    THEN "Connection timeout"
    ELSE "Unknown API Error"

\* C18: on primary exhaustion the alert embeds the classification of the
\* last error text: Rate limit exceeded or Quota exhausted for a quota or 429
\* text, Invalid or expired API Key for an API-key text, Service unavailable
\* for an unavailable or 503 text, Connection timeout for a Deadline
\* exceeded text, and Unknown API Error for any other text.
C18_ErrorClassification ==
    (/\ invocation.stage = "returned"
     /\ invocation.provider = "gemini"
     /\ invocation.out.fails > Retries)
    => Contains(invocation.ret.alert,
                "Gemini Failure (" \o ExpectedReason(invocation.out.error) \o ")")

\* C19: when the fallback layer returned an alert to a role, the messages
\* the role returns start with the alert as an assistant message of its own,
\* tagged [SYSTEM ALERT], followed by the model's response, whether the
\* response carries no tool request, its tools were executed, or the role
\* suspended at the confirmation gate.
C19_AlertInReturnedMessages ==
    (invocation.stage = "handled" /\ invocation.ret.alert # "")
    => /\ Len(invocation.node.messages) >= 2
       /\ invocation.node.messages[1] = AIMessage(invocation.ret.alert)
       /\ Contains(invocation.node.messages[1].content, "[SYSTEM ALERT]")
       /\ invocation.node.messages[2].type = "ai"
       /\ invocation.node.messages[2].tool_calls = invocation.ret.response.tool_calls

\* C20: when the Coordinator ran tool requests that needed no confirmation,
\* the messages it returns for the turn end with the final response of a
\* further model invocation (an assistant message without tool requests),
\* or hold the tool-call messages of 3 iterations.
C20_CoordinatorToolLoop ==
    (/\ last_run.role = "recaizade"
     /\ ~last_run.waiting
     /\ last_run.handled # <<>>)
    => \/ /\ last_run.returned[Len(last_run.returned)].type = "ai"
          /\ last_run.returned[Len(last_run.returned)].tool_calls = <<>>
       \/ Cardinality({i \in 1..Len(last_run.returned) :
                          /\ last_run.returned[i].type = "ai"
                          /\ last_run.returned[i].tool_calls # <<>>}) = 3

\* The last message of the state handed to the router call
RoutedLast == routing.msgs[Len(routing.msgs)]

\* The text that follows the task-command token in the trimmed text
TaskRemainder(content) ==
    Strip(Sub(Strip(content), Len("/task") + 1, Len(Strip(content))))

\* C21: when the last message is a user message whose trimmed text starts
\* with /task, the router returns next_node coder and the rest of that text
\* after the token as task_description, whatever the history holds before it.
C21_TaskCommandRouting ==
    (/\ routing.stage = "returned"
     /\ routing.msgs # <<>>
     /\ RoutedLast.type = "human"
     /\ StartsWith(Strip(RoutedLast.content), "/task"))
    => /\ routing.ret.next_node = "coder"
       /\ routing.ret.task_description = TaskRemainder(RoutedLast.content)

\* The last message is a tool result or a user message with an approval or
\* denial marker, and is no task command.
RoutedContinuation ==
    /\ routing.msgs # <<>>
    /\ ~(RoutedLast.type = "human" /\ StartsWith(Strip(RoutedLast.content), "/task"))
    /\ \/ RoutedLast.type = "tool"
       \/ /\ RoutedLast.type = "human"
          /\ \/ Contains(RoutedLast.content, "APPROVE_TOOL")
             \/ Contains(RoutedLast.content, "DENY_TOOL")

\* C22: on a continuation the router selects the role named by the sender
\* prefix of the most recent assistant message of the history (Coordinator
\* when it has none of the four prefixes), whatever older assistant
\* messages say.
C22_ContinuationResumesLastSender ==
    (routing.stage = "returned" /\ RoutedContinuation)
    => \A i \in 1..Len(routing.msgs) :
          (/\ routing.msgs[i].type = "ai"
           /\ \A j \in (i + 1)..Len(routing.msgs) : routing.msgs[j].type # "ai")
          => routing.ret.next_node
               = (IF StartsWith(routing.msgs[i].content, "Coder:") THEN "coder"
                  ELSE IF StartsWith(routing.msgs[i].content, "Reviewer:") THEN "reviewer"
                  ELSE IF StartsWith(routing.msgs[i].content, "Executor:") THEN "executor"
                  ELSE IF StartsWith(routing.msgs[i].content, "Documenter:") THEN "documenter"
                  ELSE "recaizade")

\* C22, its case: a tool result follows an assistant message without a
\* prefix, which follows a Coder message; the Coordinator is selected.
C22_Witness ==
    /\ routing.stage = "returned"
    /\ Len(routing.msgs) = 3
    /\ StartsWith(routing.msgs[1].content, "Coder:")
    /\ routing.msgs[2].type = "ai"
    /\ routing.msgs[2].content = "ok"
    /\ routing.msgs[3].type = "tool"
    /\ routing.ret.next_node = "recaizade"

\* C23: the router selects the Coordinator when the history is empty and
\* when the last message is neither a task command nor a continuation; a
\* role of the crew is selected only for a task command or a continuation.
C23_DefaultRoute ==
    routing.stage = "returned"
    => /\ (routing.msgs = <<>> \/ ~(RoutedContinuation
                                    \/ (/\ RoutedLast.type = "human"
                                        /\ StartsWith(Strip(RoutedLast.content), "/task"))))
          => routing.ret.next_node = "recaizade"
       /\ routing.ret.next_node # "recaizade"
          => /\ routing.msgs # <<>>
             /\ \/ RoutedContinuation
                \/ /\ RoutedLast.type = "human"
                   /\ StartsWith(Strip(RoutedLast.content), "/task")

\* C23, its case: plain input follows a task command and a Coder message,
\* and the Coordinator is selected.
C23_Witness ==
    /\ routing.stage = "returned"
    /\ Len(routing.msgs) = 3
    /\ routing.msgs[1] = HumanMessage("/task x")
    /\ StartsWith(routing.msgs[2].content, "Coder:")
    /\ routing.msgs[3] = HumanMessage("hi")
    /\ routing.ret.next_node = "recaizade"

CrewCriticalFailure ==
    \E i \in 1..Len(messages) :
        /\ \A j \in i..Len(messages) : messages[j].type # "human"
        /\ messages[i].type = "ai"
        /\ Contains(messages[i].content, "[SYSTEM ALERT] Critical Error")
        /\ \/ StartsWith(messages[i].content, "Coder:")
           \/ StartsWith(messages[i].content, "Reviewer:")
           \/ StartsWith(messages[i].content, "Documenter:")

\* C25: in a turn started by a task command, once Coder, Reviewer or
\* Documenter has produced a critical-failure message, Coder is not run
\* again in that turn.
C25_CriticalFailureEndsCrew ==
    (turn.task /\ CrewCriticalFailure) => pc # "coder"

\* C26: after a Reviewer run that did not suspend, review_status is
\* APPROVED when the text of the Reviewer's own response contains
\* REVIEW_PASSED and REJECTED otherwise, whatever the tool results of the
\* run contain.
C26_ReviewStatusFromResponse ==
    (last_run.role = "reviewer" /\ ~last_run.waiting)
    => \A i \in 1..Len(last_run.returned) :
          (/\ last_run.returned[i].type = "ai"
           /\ \A j \in (i + 1)..Len(last_run.returned) :
                 last_run.returned[j].type # "ai")
          => review_status
               = (IF Contains(last_run.returned[i].content, "REVIEW_PASSED")
                  THEN "APPROVED" ELSE "REJECTED")

\* The single call: under auto it never asks for a confirmation; under all
\* it asks for one whenever the call holds and no user message of its
\* history carries the approval marker of its name and call id.
GateFollowsPolicy(holds) ==
    gate.stage = "returned"
    => /\ gate.level = "auto" => ~gate.ret.needs_confirm
       /\ (/\ gate.level = "all"
           /\ holds
           /\ ~UserMarker(gate.msgs, gate.call.name, gate.call.id))
          => gate.ret.needs_confirm

\* The session: under auto no role suspends and the session never waits
\* for a confirmation; under all a role dispatches a tool only with its
\* approval marker in the messages.
SessionFollowsPolicy ==
    /\ confirmation_level = "auto"
       => /\ ~waiting_confirmation
          /\ ~last_run.waiting
          /\ pc # "confirm"
          /\ \A k \in 1..Len(last_run.handled) : ~last_run.handled[k].ret.needs_confirm
    /\ confirmation_level = "all"
       => \A k \in 1..Len(last_run.handled) :
             last_run.handled[k].ret.dispatched
             => UserMarker(messages, last_run.handled[k].call.name,
                           last_run.handled[k].call.id)

C28_DenialIsErrorToolResult ==
    [][/\ (/\ pc = "confirm"
           /\ pc' # "confirm"
           /\ ~(/\ Len(conversation_history') > Len(conversation_history)
                /\ conversation_history'[Len(conversation_history')].type = "human"))
          => /\ Len(conversation_history') = Len(conversation_history) + 1
             /\ conversation_history'[Len(conversation_history')].type = "tool"
             /\ conversation_history'[Len(conversation_history')].tool_call_id
                  = pending_tool.id
             /\ conversation_history'[Len(conversation_history')].name
                  = pending_tool.name
             /\ StartsWith(conversation_history'[Len(conversation_history')].content,
                           "Error")
       /\ \A k \in (Len(effects) + 1)..Len(effects') :
             (effects'[k].via = "pipeline" /\ effects'[k].name \in DANGEROUS_TOOLS)
             => UserMarker(messages, effects'[k].name, effects'[k].id)]_vars

\* C29: when the loop of a role over the requests of its response meets a
\* request the pipeline asks a confirmation for, the role returns exactly
\* the assistant message as its messages, waiting_confirmation true and
\* that request, the first such one, as pending_tool; the requests before
\* it were handed to the pipeline in order and needed no confirmation, and
\* no request after it was handed to the pipeline or executed.
C29_SuspendsAtFirstUnconfirmed ==
    (invocation.stage = "handled" /\ invocation.node.waiting)
    => /\ Len(invocation.node.messages) = 1
       /\ invocation.node.messages[1].type = "ai"
       /\ invocation.node.messages[1].tool_calls = invocation.ret.response.tool_calls
       /\ \E k \in 1..Len(invocation.ret.response.tool_calls) :
             /\ invocation.node.pending = invocation.ret.response.tool_calls[k]
             /\ Len(invocation.node.handled) = k
             /\ \A i \in 1..k :
                   /\ invocation.node.handled[i].call
                        = invocation.ret.response.tool_calls[i]
                   /\ invocation.node.handled[i].ret.needs_confirm <=> i = k
             /\ Len(invocation.node.effects)
                  = Cardinality({i \in 1..(k - 1) :
                                    invocation.node.handled[i].ret.dispatched})
             /\ \A e \in 1..Len(invocation.node.effects) :
                   \E i \in 1..(k - 1) :
                       /\ invocation.node.effects[e].name
                            = invocation.node.handled[i].call.name
                       /\ invocation.node.effects[e].id
                            = invocation.node.handled[i].call.id

\* C29, its case: under policy all a response with two requests suspended
\* on the first one, and the second was left alone.
C29_Witness ==
    /\ invocation.stage = "handled"
    /\ confirmation_level = "all"
    /\ invocation.node.waiting
    /\ Len(invocation.ret.response.tool_calls) = 2
    /\ invocation.node.pending = invocation.ret.response.tool_calls[1]
    /\ Len(invocation.node.handled) = 1
    /\ invocation.node.effects = <<>>

\* The effects of the handled node that went through the pipeline
NodePipelineEffects ==
    {e \in 1..Len(invocation.node.effects) : invocation.node.effects[e].via = "pipeline"}

\* C30: a role that does not suspend hands the requests of its response to
\* the pipeline one by one in the order of the response, after its one
\* model invocation; the tools that were dispatched ran in that order; and
\* the messages it returns are the assistant message followed by one tool
\* result per request, in the order of the requests, each with the call id
\* and name of its request.
C30_ToolCallsInOrder ==
    (invocation.stage = "handled" /\ ~invocation.node.waiting)
    => /\ invocation.ret.calls + invocation.ret.fallback_calls >= 1
       /\ Len(invocation.node.handled) = Len(invocation.ret.response.tool_calls)
       /\ \A i \in 1..Len(invocation.node.handled) :
             invocation.node.handled[i].call = invocation.ret.response.tool_calls[i]
       /\ \E r \in 1..Len(invocation.node.messages) :
             /\ invocation.node.messages[r].type = "ai"
             /\ invocation.node.messages[r].tool_calls
                  = invocation.ret.response.tool_calls
             /\ Len(invocation.node.messages)
                  = r + Len(invocation.ret.response.tool_calls)
             /\ \A i \in 1..Len(invocation.ret.response.tool_calls) :
                   /\ invocation.node.messages[r + i].type = "tool"
                   /\ invocation.node.messages[r + i].tool_call_id
                        = invocation.ret.response.tool_calls[i].id
                   /\ invocation.node.messages[r + i].name
                        = invocation.ret.response.tool_calls[i].name
                   /\ invocation.node.messages[r + i].content
                        = invocation.node.handled[i].ret.result
       /\ Cardinality(NodePipelineEffects)
            = Cardinality({i \in 1..Len(invocation.node.handled) :
                              invocation.node.handled[i].ret.dispatched})
       /\ \A e1, e2 \in NodePipelineEffects :
             e1 <= e2
             => \E i1, i2 \in 1..Len(invocation.node.handled) :
                   /\ i1 <= i2
                   /\ e1 = e2 <=> i1 = i2
                   /\ invocation.node.handled[i1].ret.dispatched
                   /\ invocation.node.handled[i2].ret.dispatched
                   /\ invocation.node.effects[e1].name = invocation.node.handled[i1].call.name
                   /\ invocation.node.effects[e1].id = invocation.node.handled[i1].call.id
                   /\ invocation.node.effects[e2].name = invocation.node.handled[i2].call.name
                   /\ invocation.node.effects[e2].id = invocation.node.handled[i2].call.id

\* C30, its case: under policy auto both requests of a response were
\* executed and the role returned the response and the two results.
C30_Witness ==
    /\ invocation.stage = "handled"
    /\ confirmation_level = "auto"
    /\ ~invocation.node.waiting
    /\ Len(invocation.ret.response.tool_calls) = 2
    /\ Len(invocation.node.effects) >= 2
    /\ invocation.node.effects[1].name = "read_file"
    /\ invocation.node.effects[2].name = "write_file"
    /\ invocation.node.messages[Len(invocation.node.messages)].tool_call_id = "c12"

\* The text execute_tool_with_confirmation returns for arguments that fail
\* the schema of tool name
ValidationText(name) ==
    "Error: Tool argument validation failed for '" \o name \o "'"

NodeResponse ==
    invocation.node.messages[IF ~invocation.node.waiting /\ invocation.ret.alert # ""
                             THEN 2 ELSE 1]

\* C34: the non-empty text of the response Coder, Reviewer or Documenter
\* returns starts with the role's prefix; a text that already starts with it
\* is returned as it is, any other non-empty text with the prefix and a
\* space put ahead of it once, so that prefixing the returned response again
\* changes nothing; an empty text stays empty, and the Coordinator's text is
\* the text of the model.
C34_SenderPrefixIdempotent ==
    invocation.stage = "handled"
    => /\ NodeResponse.type = "ai"
       /\ NodeResponse.tool_calls = invocation.ret.response.tool_calls
       /\ invocation.role = "recaizade"
          => NodeResponse.content = invocation.ret.response.content
       /\ invocation.role # "recaizade"
          => /\ NodeResponse.content # ""
                => StartsWith(NodeResponse.content, Prefix(invocation.role))
             /\ invocation.ret.response.content = "" => NodeResponse.content = ""
             /\ StartsWith(invocation.ret.response.content, Prefix(invocation.role))
                => NodeResponse.content = invocation.ret.response.content
             /\ (/\ invocation.ret.response.content # ""
                 /\ ~StartsWith(invocation.ret.response.content, Prefix(invocation.role)))
                => NodeResponse.content
                     = Prefix(invocation.role) \o " " \o invocation.ret.response.content
             /\ Prefixed(invocation.role, NodeResponse) = NodeResponse

\* C34, its case: the Coder's model answered a text that already starts with
\* Coder: and the node returned that text unchanged.
C34_Witness ==
    /\ invocation.stage = "handled"
    /\ invocation.role = "coder"
    /\ invocation.ret.response.content = "Coder: done"
    /\ NodeResponse.content = "Coder: done"

\* C32: a call of execute_tool_with_confirmation ends in a returned pair of
\* a text and needs_confirmation, never in an exception, whatever fails: the
\* remote session, the reset of the session, the in-process function, or
\* the lookup of the tool name.
C32_ExecuteNeverRaises ==
    gate.stage = "returned" => ~gate.ret.raised

\* The number of entries of the events of the returned call that are in S
EventCount(S) ==
    Cardinality({i \in 1..Len(gate.ret.events) : gate.ret.events[i] \in S})

RemoteAttempts == {"remote ok", "remote raised", "no session"}

\* C33: with the remote session configured, one call makes at most two
\* remote attempts; it resets the session at most once, and only right
\* after a first attempt that raised; it calls the in-process function at
\* most once, as its last step, and only after two remote attempts that
\* raised or found no session; a remote attempt that succeeds is the last
\* step and its result is what the call returns.
C33_RemoteThenLocalBudget ==
    (gate.stage = "returned" /\ gate.use_mcp)
    => /\ EventCount(RemoteAttempts) <= 2
       /\ EventCount({"reset", "reset raised"}) <= 1
       /\ \A i \in 1..Len(gate.ret.events) :
             /\ gate.ret.events[i] \in {"reset", "reset raised"}
                => i = 2 /\ gate.ret.events[1] = "remote raised"
             /\ gate.ret.events[i] \in {"local ok", "local raised"}
                => /\ i = Len(gate.ret.events)
                   /\ EventCount(RemoteAttempts) = 2
                   /\ EventCount({"remote ok"}) = 0
             /\ gate.ret.events[i] = "remote ok"
                => /\ i = Len(gate.ret.events)
                   /\ gate.ret.result = RemoteOutput(gate.call.name)
                   /\ ~gate.ret.raised
       /\ EventCount({"local ok", "local raised"}) <= 1

\* C33, its case: the first remote attempt raised, the session was reset,
\* the second attempt raised too, and the in-process function gave the
\* result.
C33_Witness ==
    /\ gate.stage = "returned"
    /\ gate.use_mcp
    /\ gate.ret.events = <<"remote raised", "reset", "remote raised", "local ok">>
    /\ gate.ret.result = ToolOutput(gate.call.name)

\* The policy value the settings file of the call holds; None when it holds
\* none (no file, no behavior section, no tool_confirmation in it)
StoredPolicy ==
    ConfigGet(IF gate.file.kind = "behavior" THEN gate.file.value ELSE Dict(<<>>),
              "tool_confirmation")

\* The settings file of the call holds a behavior section that is an object
\* without tool_confirmation, or no behavior section, or there is no file
PolicyKeyAbsent ==
    \/ gate.file.kind # "behavior"
    \/ gate.file.value.is_dict /\ "tool_confirmation" \notin DOMAIN gate.file.value.items

\* C39: the policy the call reads is the value the settings file holds, the
\* default dangerous when the file holds no tool_confirmation, and None when
\* its behavior section is no object.  A value read that is neither all nor
\* dangerous (auto, a misspelled value, None) behaves as auto: the call
\* never returns needs_confirmation true, returns what it returns under
\* auto, and a dangerous tool with valid arguments is dispatched without an
\* approval.
C39_OtherValuesBehaveAsAuto ==
    /\ gate.stage # "none"
       => confirmation_level
            = (IF PolicyKeyAbsent THEN "dangerous" ELSE StoredPolicy)
    /\ (gate.stage = "returned" /\ confirmation_level \notin {"all", "dangerous"})
       => /\ ~gate.ret.needs_confirm
          /\ gate.ret = ExecuteToolConfigured("auto", gate.call, gate.msgs,
                                              gate.use_mcp, gate.open, gate.env)
          /\ (/\ gate.call.name \in DANGEROUS_TOOLS
              /\ gate.call.valid
              /\ ~gate.ret.raised)
             => gate.ret.dispatched

\* C39, its case: the settings file holds the misspelled value Dangerous,
\* and write_file was dispatched with no approval in the messages.
C39_Witness ==
    /\ gate.stage = "returned"
    /\ confirmation_level = "Dangerous"
    /\ gate.call = ToolCall("write_file", "c1", TRUE)
    /\ gate.msgs = <<HumanMessage("hi")>>
    /\ gate.ret.dispatched
    /\ ~gate.ret.needs_confirm

\* C39 as stated, a missing value taken as the settings file holding none:
\* whenever the file holds no policy value or one that is neither all nor
\* dangerous, the call never returns needs_confirmation true.
C39_MissingValueBehavesAsAuto ==
    (gate.stage = "returned" /\ StoredPolicy \notin {"all", "dangerous"})
    => ~gate.ret.needs_confirm

\* The node of the graph that is about to run is a role with a model
AtRole == pc \in {"recaizade", "coder", "reviewer", "documenter"}

\* C35: the approval of the pending request of a suspended role starts a
\* run, the resumed turn; and the role that runs in a turn started by an
\* approval executes the pending request of the suspension, with its name
\* and call id, and appends a tool-result message with that call id.
C35_ApprovedRequestExecuted ==
    [][/\ (pc = "confirm" /\ pc' # "confirm") => pc' = "router"
       /\ (/\ turn.start = "approve"
           /\ last_run.waiting
           /\ AtRole
           /\ pc' # pc)
          => /\ \E k \in (Len(effects) + 1)..Len(effects') :
                   /\ effects'[k].via = "pipeline"
                   /\ effects'[k].name = last_run.pending.name
                   /\ effects'[k].id = last_run.pending.id
             /\ \E m \in (Len(messages) + 1)..Len(messages') :
                   /\ messages'[m].type = "tool"
                   /\ messages'[m].tool_call_id = last_run.pending.id
                   /\ messages'[m].name = last_run.pending.name]_vars

\* C36: the approval marker that the answer to the confirmation screen
\* appends to the history names the pending request of the suspension, its
\* tool name and its call id, whichever of the requests of the assistant
\* message it is.
C36_MarkerNamesPendingTool ==
    [][(/\ pc = "confirm"
        /\ Len(conversation_history') > Len(conversation_history)
        /\ conversation_history'[Len(conversation_history')].type = "human")
       => conversation_history'[Len(conversation_history')].content
            = ApprovalMarker(pending_tool.name, pending_tool.id)]_vars

\* C37: while a turn is suspended at the confirmation gate, the last message
\* of the session history is the assistant message the suspended role
\* returned, the one that carries the pending tool request.
C37_PendingRequestLastInHistory ==
    pc = "confirm"
    => /\ conversation_history # <<>>
       /\ conversation_history[Len(conversation_history)] = last_run.returned[1]
       /\ \E k \in 1..Len(conversation_history[Len(conversation_history)].tool_calls) :
             conversation_history[Len(conversation_history)].tool_calls[k] = pending_tool

\* C38: the run that resumes a Documenter suspended with review_status
\* APPROVED starts with that review_status still in effect, and the
\* Documenter step of a turn that resumes the Documenter, when it returns
\* without another suspension, is followed by End, not by Coder.
C38_ApprovalOutlivesSuspension ==
    [][/\ (/\ review_status = "APPROVED"
           /\ last_run.waiting
           /\ last_run.role = "documenter"
           /\ pc # "router"
           /\ pc' = "router"
           /\ turn'.resumes = "documenter")
          => review_status' = "APPROVED"
       /\ (/\ pc = "documenter"
           /\ turn.resumes = "documenter"
           /\ pc' \notin {"documenter", "confirm"})
          => pc' = "end"]_vars

====
